---- MODULE Spec2Model ----
(***************************************************************************)
(* Order composition tree of the UNIOR course repository (Composite        *)
(* pattern): Producto (leaf), Caja (composite) and GestorPedidos (client). *)
(* Objects are references: an element is named by its identity, and two    *)
(* distinct Producto objects may carry the same nombre/precio/categoria.   *)
(* Prices are amounts in cents.                                            *)
(* The other programs of the repository (the promise exercise, the file    *)
(* system Composite, the SOLID exercises) have their own variables and    *)
(* their own specifications further down.                                  *)
(***************************************************************************)
EXTENDS Integers, Sequences, FiniteSets, TLC

VARIABLES contenido, elementos, productos, cajas, variante, ultimo,
          transacciones,
          parent, children,
          servicio,
          catalogo, inventory, venta

\* the variables of the order system
sistemaPedidos == <<contenido, elementos, productos, cajas, variante, ultimo>>

\* the variables of the promise exercise
varsTransaccion == <<transacciones>>

\* the variables of the file system Composite
varsArchivos == <<parent, children>>

\* the variables of ServicioPedidos
varsServicio == <<servicio>>

\* the variables of the product hierarchy and of the inventory manager
varsProductos == <<catalogo, inventory, venta>>

\* the variables of the other programs
otros == <<varsTransaccion, varsArchivos, varsServicio, varsProductos>>

vars == <<sistemaPedidos, otros>>

\* the promise exercise has not been started
TransaccionEnReposo == transacciones = <<>>

\* no Component has been constructed
ArchivosEnReposo == parent = <<>> /\ children = <<>>

\* procesarPedido has not been called
ServicioEnReposo == servicio = <<>>

\* no product and no inventory exists
ProductosEnReposo == catalogo = <<>> /\ inventory = <<>> /\ venta = <<>>

\* the other programs have not been started
OtrosEnReposo ==
    /\ TransaccionEnReposo
    /\ ArchivosEnReposo
    /\ ServicioEnReposo
    /\ ProductosEnReposo

(* ---------------------------------------------------------------------- *)
(* Bounds of the model                                                     *)
(* ---------------------------------------------------------------------- *)

\* largest number of top-level elements of the order that is explored
MaxElementos == 2

\* depth of the call stack: deeper recursion ends in a RangeError
MaxPila == 3

(* ---------------------------------------------------------------------- *)
(* Objects                                                                 *)
(* ---------------------------------------------------------------------- *)

\* identities of the Caja objects
Cajas == {"c1", "c2"}

\* identities of the Producto objects
Productos == {"p1", "p2"}

\* every ElementoPedido
Elementos == Cajas \cup Productos

\* the copies of class Caja in the repository: "js" is the JavaScript class
\* (and its ES5 copy, which has the same statements), "ts" the TypeScript one
Variantes == {"js", "ts"}

\* outcome of a recursion that exhausts the call stack (an exception)
RangeError == [tipo |-> "RangeError"]

\* the value a call without return statement yields
undefined == [tipo |-> "undefined"]

\* a returned number or array
Valor(v) == [tipo |-> "valor", valor |-> v]

\* new Producto(nombre, precio, categoria)
Producto(nombre, precio, categoria) ==
    [nombre |-> nombre, precio |-> precio, categoria |-> categoria]

\* new Caja(nombre, costoCaja, tipoEmpaque, capacidadMaxima)
Caja(nombre, costoCaja, tipoEmpaque, capacidadMaxima) ==
    [nombre |-> nombre, costoCaja |-> costoCaja, tipoEmpaque |-> tipoEmpaque,
     capacidadMaxima |-> capacidadMaxima]

\* ElementoPedido.obtenerNombre
obtenerNombre(e) ==
    IF e \in DOMAIN productos THEN productos[e].nombre ELSE cajas[e].nombre

(* ---------------------------------------------------------------------- *)
(* Array helpers                                                           *)
(* ---------------------------------------------------------------------- *)

\* two distinct objects with the same field values
MismosCampos(a, b) ==
    \/ a = b
    \/ a \in DOMAIN productos /\ b \in DOMAIN productos /\ productos[a] = productos[b]
    \/ a \in DOMAIN cajas /\ b \in DOMAIN cajas /\ cajas[a] = cajas[b] /\ contenido[a] = contenido[b]

\* variant of indexOf that compares field by field instead of by reference
indexOfEstructural(s, e) ==
    IF \E i \in 1..Len(s) : MismosCampos(s[i], e)
    THEN (CHOOSE i \in 1..Len(s) :
            MismosCampos(s[i], e) /\ \A j \in 1..(i - 1) : ~MismosCampos(s[j], e)) - 1
    ELSE -1

\* Array.prototype.indexOf: 0-based index of the first entry that is the
\* same reference (===) as e, or -1
indexOf(s, e) ==
    IF \E i \in 1..Len(s) : s[i] = e
    THEN (CHOOSE i \in 1..Len(s) : s[i] = e /\ \A j \in 1..(i - 1) : s[j] # e) - 1
    ELSE -1

\* Array.prototype.splice(indice, 1): drops the entry at 0-based indice
splice(s, indice) ==
    [k \in 1..(Len(s) - 1) |-> IF k <= indice THEN s[k] ELSE s[k + 1]]

(* ---------------------------------------------------------------------- *)
(* Pure reads of the tree                                                  *)
(* ---------------------------------------------------------------------- *)

\* precioTotal += x, where an exception raised by x leaves the loop
Mas(a, b) ==
    IF a = RangeError \/ b = RangeError THEN RangeError
    ELSE Valor(a.valor + b.valor)

RECURSIVE PrecioEn(_, _), SumarContenido(_, _, _), SumarContenidoSinCosto(_, _, _)

\* variant of PrecioEn where a nested box answers with the price it had when
\* it was constructed (its costoCaja) instead of walking its contents
PrecioEnCongelado(e, pila) ==
    IF pila = 0 THEN RangeError
    ELSE IF e \in DOMAIN productos THEN Valor(productos[e].precio)
    ELSE IF pila < MaxPila THEN Valor(cajas[e].costoCaja)
    ELSE SumarContenido(contenido[e], Valor(cajas[e].costoCaja), pila - 1)

\* calcularPrecio of e with pila stack frames left
PrecioEn(e, pila) ==
    IF pila = 0 THEN RangeError
    ELSE IF e \in DOMAIN productos THEN Valor(productos[e].precio)
    ELSE SumarContenido(contenido[e], Valor(cajas[e].costoCaja), pila - 1)

\* variant of SumarContenido that leaves the costoCaja of nested boxes out
SumarContenidoSinCosto(s, precioTotal, pila) ==
    IF precioTotal = RangeError THEN RangeError
    ELSE IF s = <<>> THEN precioTotal
    ELSE LET x == PrecioEn(Head(s), pila)
             y == IF Head(s) \in DOMAIN cajas /\ x # RangeError
                  THEN Valor(x.valor - cajas[Head(s)].costoCaja) ELSE x
         IN  SumarContenidoSinCosto(Tail(s), Mas(precioTotal, y), pila)

\* the for-of loop of Caja.calcularPrecio, left to right
SumarContenido(s, precioTotal, pila) ==
    IF precioTotal = RangeError THEN RangeError
    ELSE IF s = <<>> THEN precioTotal
    ELSE SumarContenido(Tail(s), Mas(precioTotal, PrecioEn(Head(s), pila)), pila)

\* Producto.calcularPrecio / Caja.calcularPrecio
calcularPrecio(e) == PrecioEn(e, MaxPila)

RECURSIVE TotalDe(_, _)

\* the for-of loop of GestorPedidos.calcularPrecioTotal
TotalDe(s, total) ==
    IF total = RangeError THEN RangeError
    ELSE IF s = <<>> THEN total
    ELSE TotalDe(Tail(s), Mas(total, calcularPrecio(Head(s))))

\* GestorPedidos.calcularPrecioTotal
calcularPrecioTotal == TotalDe(elementos, Valor(0))

\* productos.push(...x), where an exception raised by x leaves the loop
Unir(a, b) ==
    IF a = RangeError \/ b = RangeError THEN RangeError
    ELSE Valor(a.valor \o b.valor)

RECURSIVE ProductosEn(_, _), JuntarContenido(_, _, _), JuntarContenidoDirecto(_, _, _)

\* Caja.obtenerTodosLosProductos of c with pila stack frames left
ProductosEn(c, pila) ==
    IF pila = 0 THEN RangeError
    ELSE JuntarContenido(contenido[c], Valor(<<>>), pila - 1)

\* variant of JuntarContenido that collects the direct children only
JuntarContenidoDirecto(s, prods, pila) ==
    IF s = <<>> THEN prods
    ELSE IF Head(s) \in DOMAIN productos
         THEN JuntarContenidoDirecto(Tail(s), Valor(Append(prods.valor, Head(s))), pila)
         ELSE JuntarContenidoDirecto(Tail(s), prods, pila)

\* the for-of loop of Caja.obtenerTodosLosProductos, left to right
JuntarContenido(s, prods, pila) ==
    IF prods = RangeError THEN RangeError
    ELSE IF s = <<>> THEN prods
    ELSE IF Head(s) \in DOMAIN productos
         THEN JuntarContenido(Tail(s), Valor(Append(prods.valor, Head(s))), pila)
         ELSE JuntarContenido(Tail(s), Unir(prods, ProductosEn(Head(s), pila)), pila)

\* Caja.obtenerTodosLosProductos
obtenerTodosLosProductos(c) == ProductosEn(c, MaxPila)

\* Caja.obtenerCantidadElementos
obtenerCantidadElementos(c) == Len(contenido[c])

\* variant of estaLlena whose test is > instead of >=
estaLlenaEstricta(c) == Len(contenido[c]) > cajas[c].capacidadMaxima

\* Caja.estaLlena
estaLlena(c) == Len(contenido[c]) >= cajas[c].capacidadMaxima

RECURSIVE repeat(_, _)

\* String.prototype.repeat: n copies of the characters s
repeat(s, n) == IF n = 0 THEN <<>> ELSE s \o repeat(s, n - 1)

\* variant of generarIndentacion with one space per level
generarIndentacionCorta(nivel) == repeat(<<" ">>, nivel)

\* ElementoPedido.generarIndentacion: two spaces per level
generarIndentacion(nivel) == repeat(<<" ", " ">>, nivel)

\* the line Producto.obtenerDescripcion returns
LineaProducto(e, nivel) ==
    [indentacion |-> generarIndentacion(nivel), tipo |-> "Producto", elem |-> e,
     nombre |-> productos[e].nombre, detalle |-> productos[e].categoria,
     monto |-> productos[e].precio, ocupacion |-> <<>>]

\* the first line of Caja.obtenerDescripcion: "(vacia)" is an empty
\* ocupacion, "(n/max elementos):" is <<n, max>>
LineaCaja(e, nivel) ==
    [indentacion |-> generarIndentacion(nivel), tipo |-> "Caja", elem |-> e,
     nombre |-> cajas[e].nombre, detalle |-> cajas[e].tipoEmpaque,
     monto |-> cajas[e].costoCaja,
     ocupacion |-> IF Len(contenido[e]) = 0 THEN <<>>
                   ELSE <<Len(contenido[e]), cajas[e].capacidadMaxima>>]

RECURSIVE DescripcionEn(_, _, _), DescribirContenido(_, _, _, _)

\* obtenerDescripcion(nivel) of e with pila stack frames left: the lines of
\* the returned text
DescripcionEn(e, nivel, pila) ==
    IF pila = 0 THEN RangeError
    ELSE IF e \in DOMAIN productos THEN Valor(<<LineaProducto(e, nivel)>>)
    ELSE IF Len(contenido[e]) = 0 THEN Valor(<<LineaCaja(e, nivel)>>)
    ELSE DescribirContenido(contenido[e], Valor(<<LineaCaja(e, nivel)>>),
                            nivel, pila - 1)

\* the for-of loop of Caja.obtenerDescripcion: descripcion += '\n' + child
DescribirContenido(s, descripcion, nivel, pila) ==
    IF descripcion = RangeError THEN RangeError
    ELSE IF s = <<>> THEN descripcion
    ELSE DescribirContenido(Tail(s),
             Unir(descripcion, DescripcionEn(Head(s), nivel + 1, pila)),
             nivel, pila)

\* Producto.obtenerDescripcion / Caja.obtenerDescripcion
obtenerDescripcion(e, nivel) == DescripcionEn(e, nivel, MaxPila)

RECURSIVE MCD(_, _)

\* greatest common divisor of two naturals
MCD(a, b) == IF b = 0 THEN a ELSE MCD(b, a % b)

\* the quotient a / b of a natural by a positive natural, in lowest terms
Dividir(a, b) ==
    LET g == MCD(a, b) IN [num |-> a \div g, den |-> b \div g]

RECURSIVE ContarElementosSinAnidar(_, _), ContarElementos(_, _)

\* variant of ContarElementos that does not look inside the boxes
ContarElementosSinAnidar(s, cuenta) ==
    IF s = <<>> THEN cuenta
    ELSE IF Head(s) \in DOMAIN productos
         THEN ContarElementosSinAnidar(Tail(s),
                  Valor([cuenta.valor EXCEPT !.totalProductos = @ + 1]))
         ELSE ContarElementosSinAnidar(Tail(s),
                  Valor([cuenta.valor EXCEPT !.totalCajas = @ + 1]))

\* the for-of loop of GestorPedidos.obtenerEstadisticas
ContarElementos(s, cuenta) ==
    IF cuenta = RangeError THEN RangeError
    ELSE IF s = <<>> THEN cuenta
    ELSE IF Head(s) \in DOMAIN productos
         THEN ContarElementos(Tail(s),
                  Valor([cuenta.valor EXCEPT !.totalProductos = @ + 1]))
         ELSE LET todos == obtenerTodosLosProductos(Head(s)) IN
              ContarElementos(Tail(s),
                  IF todos = RangeError THEN RangeError
                  ELSE Valor([totalProductos |->
                                 cuenta.valor.totalProductos + Len(todos.valor),
                              totalCajas |-> cuenta.valor.totalCajas + 1]))

\* GestorPedidos.obtenerEstadisticas
obtenerEstadisticas ==
    LET cuenta == ContarElementos(elementos,
                      Valor([totalProductos |-> 0, totalCajas |-> 0]))
        precioTotal == calcularPrecioTotal
        totalElementos == Len(elementos)
    IN  IF cuenta = RangeError \/ precioTotal = RangeError THEN RangeError
        ELSE Valor([totalElementos |-> totalElementos,
                    totalProductos |-> cuenta.valor.totalProductos,
                    totalCajas |-> cuenta.valor.totalCajas,
                    precioPromedio |->
                        IF totalElementos > 0
                        THEN Dividir(precioTotal.valor, totalElementos)
                        ELSE Dividir(0, 1)])

RECURSIVE procesarElemento(_, _), ProcesarHijos(_, _)

\* GeneradorDiagramaMermaid.procesarElemento: nodos lists the registered
\* elements in the order of the Map; the id of nodos[i] is nodo(i-1)
procesarElemento(e, nodos) ==
    IF \E i \in 1..Len(nodos) : nodos[i] = e THEN nodos
    ELSE IF e \in DOMAIN cajas THEN ProcesarHijos(contenido[e], Append(nodos, e))
    ELSE Append(nodos, e)

\* the for-of loop of procesarElemento
ProcesarHijos(s, nodos) ==
    IF s = <<>> THEN nodos
    ELSE ProcesarHijos(Tail(s), procesarElemento(Head(s), nodos))

\* Map.get: the number in the id of a registered element
IdNodo(nodos, e) == (CHOOSE i \in 1..Len(nodos) : nodos[i] = e) - 1

RECURSIVE generarNodos(_, _, _)

\* GeneradorDiagramaMermaid.generarNodos: one definition per entry of the Map
generarNodos(nodos, k, salida) ==
    IF k > Len(nodos) THEN Valor(salida)
    ELSE LET e == nodos[k]
             precio == calcularPrecio(e)
         IN  IF precio = RangeError THEN RangeError
             ELSE generarNodos(nodos, k + 1,
                      Append(salida,
                             [id |-> k - 1, elem |-> e,
                              esProducto |-> e \in DOMAIN productos,
                              precio |-> precio.valor,
                              cantidad |-> IF e \in DOMAIN cajas
                                           THEN obtenerCantidadElementos(e)
                                           ELSE 0]))

RECURSIVE ConexionesEn(_, _, _), ConectarHijos(_, _, _, _, _)

\* GeneradorDiagramaMermaid.generarConexiones with pila stack frames left
ConexionesEn(nodos, e, pila) ==
    IF pila = 0 THEN RangeError
    ELSE IF e \in DOMAIN cajas
         THEN ConectarHijos(nodos, contenido[e], IdNodo(nodos, e), Valor(<<>>), pila - 1)
         ELSE Valor(<<>>)

\* the for-of loop of generarConexiones
ConectarHijos(nodos, s, idNodoPadre, conexiones, pila) ==
    IF conexiones = RangeError THEN RangeError
    ELSE IF s = <<>> THEN conexiones
    ELSE LET linea == Valor(<<[padre |-> idNodoPadre, hijo |-> IdNodo(nodos, Head(s))]>>)
         IN  ConectarHijos(nodos, Tail(s), idNodoPadre,
                 IF Head(s) \in DOMAIN productos
                 THEN Unir(conexiones, linea)
                 ELSE Unir(Unir(conexiones, linea), ConexionesEn(nodos, Head(s), pila)),
                 pila)

\* GeneradorDiagramaMermaid.generarDiagrama: contadorNodos and the Map are
\* reset at the start of every call, so they carry nothing between calls
generarDiagrama(e) ==
    LET nodos == procesarElemento(e, <<>>)
        definiciones == generarNodos(nodos, 1, <<>>)
        conexiones == ConexionesEn(nodos, e, MaxPila)
    IN  IF definiciones = RangeError \/ conexiones = RangeError THEN RangeError
        ELSE Valor([nodos |-> definiciones.valor, conexiones |-> conexiones.valor])


(* ---------------------------------------------------------------------- *)
(* Calls                                                                   *)
(* ---------------------------------------------------------------------- *)

\* what the last call was, what it returned and what it wrote to the console
Llamada(op, caja, elem, retorno, consola) ==
    [op |-> op, caja |-> caja, elem |-> elem, retorno |-> retorno,
     consola |-> consola, excepcion |-> (retorno = RangeError)]

Init ==
    /\ contenido = [c \in Cajas |-> <<>>]
    /\ elementos = <<>>
    /\ productos = [p \in Productos |-> Producto("Mouse", 2599, "Perifericos")]
    /\ cajas = [c \in Cajas |->
                  IF c = "c1" THEN Caja("Envio", 1000, "Reforzada", 2)
                  ELSE Caja("Perifericos", 500, "Acolchada", 1)]
    /\ variante \in Variantes
    /\ ultimo = Llamada("new", "-", "-", undefined, "-")
    /\ OtrosEnReposo

\* variant of agregar whose capacity test is > instead of >=
AgregarUnoDeMas(c, e) ==
    /\ IF Len(contenido[c]) > cajas[c].capacidadMaxima
       THEN /\ contenido' = contenido
            /\ ultimo' = Llamada("agregar", c, e, undefined, "capacidad maxima")
       ELSE /\ contenido' = [contenido EXCEPT ![c] = Append(@, e)]
            /\ ultimo' = Llamada("agregar", c, e, undefined, "Agregado")
    /\ UNCHANGED <<elementos, productos, cajas, variante, otros>>

\* variant of agregar that makes room in a full box by dropping its oldest child
AgregarDesplaza(c, e) ==
    /\ IF Len(contenido[c]) >= cajas[c].capacidadMaxima
       THEN /\ contenido' = [contenido EXCEPT ![c] = Append(Tail(@), e)]
            /\ ultimo' = Llamada("agregar", c, e, undefined, "capacidad maxima")
       ELSE /\ contenido' = [contenido EXCEPT ![c] = Append(@, e)]
            /\ ultimo' = Llamada("agregar", c, e, undefined, "Agregado")
    /\ UNCHANGED <<elementos, productos, cajas, variante, otros>>

\* variant of agregar that rejects without writing the warning
AgregarMudo(c, e) ==
    /\ IF Len(contenido[c]) >= cajas[c].capacidadMaxima
       THEN /\ contenido' = contenido
            /\ ultimo' = Llamada("agregar", c, e, undefined, "-")
       ELSE /\ contenido' = [contenido EXCEPT ![c] = Append(@, e)]
            /\ ultimo' = Llamada("agregar", c, e, undefined, "Agregado")
    /\ UNCHANGED <<elementos, productos, cajas, variante, otros>>

\* variant of agregar that uses unshift instead of push
AgregarAlInicio(c, e) ==
    /\ IF Len(contenido[c]) >= cajas[c].capacidadMaxima
       THEN /\ contenido' = contenido
            /\ ultimo' = Llamada("agregar", c, e, undefined, "capacidad maxima")
       ELSE /\ contenido' = [contenido EXCEPT ![c] = <<e>> \o @]
            /\ ultimo' = Llamada("agregar", c, e, undefined, "Agregado")
    /\ UNCHANGED <<elementos, productos, cajas, variante, otros>>

\* variant of agregar that refuses to put a box into itself
AgregarSinSiMisma(c, e) ==
    /\ IF Len(contenido[c]) >= cajas[c].capacidadMaxima \/ e = c
       THEN /\ contenido' = contenido
            /\ ultimo' = Llamada("agregar", c, e, undefined, "capacidad maxima")
       ELSE /\ contenido' = [contenido EXCEPT ![c] = Append(@, e)]
            /\ ultimo' = Llamada("agregar", c, e, undefined, "Agregado")
    /\ UNCHANGED <<elementos, productos, cajas, variante, otros>>

\* Caja.agregar(elemento) on box c
Agregar(c, e) ==
    /\ IF Len(contenido[c]) >= cajas[c].capacidadMaxima
       THEN /\ contenido' = contenido
            /\ ultimo' = Llamada("agregar", c, e, undefined, "capacidad maxima")
       ELSE /\ contenido' = [contenido EXCEPT ![c] = Append(@, e)]
            /\ ultimo' = Llamada("agregar", c, e, undefined, "Agregado")
    /\ UNCHANGED <<elementos, productos, cajas, variante, otros>>

\* variant of remover that cannot run once an agregar was rejected (the
\* rejection aborted the caller)
RemoverBloqueado(c, e) ==
    /\ ~(ultimo.op = "agregar" /\ ultimo.consola = "capacidad maxima")
    /\ LET indice == indexOf(contenido[c], e) IN
       IF indice # -1
       THEN /\ contenido' = [contenido EXCEPT ![c] = splice(@, indice)]
            /\ ultimo' = Llamada("remover", c, e, undefined, "Removido")
       ELSE /\ contenido' = contenido
            /\ ultimo' = Llamada("remover", c, e, undefined,
                                 IF variante = "ts" THEN "-" ELSE "No se encontro")
    /\ UNCHANGED <<elementos, productos, cajas, variante, otros>>

\* Caja.remover(elemento) on box c
Remover(c, e) ==
    /\ LET indice == indexOf(contenido[c], e) IN
       IF indice # -1
       THEN /\ contenido' = [contenido EXCEPT ![c] = splice(@, indice)]
            /\ ultimo' = Llamada("remover", c, e, undefined, "Removido")
       ELSE /\ contenido' = contenido
            /\ ultimo' = Llamada("remover", c, e, undefined,
                                 IF variante = "ts" THEN "-" ELSE "No se encontro")
    /\ UNCHANGED <<elementos, productos, cajas, variante, otros>>

\* variant of agregarElemento that skips an element the order already holds
AgregarElementoUnico(e) ==
    /\ Len(elementos) < MaxElementos
    /\ elementos' = IF \E i \in 1..Len(elementos) : elementos[i] = e
                    THEN elementos ELSE Append(elementos, e)
    /\ ultimo' = Llamada("agregarElemento", "-", e, undefined, "Agregado al pedido")
    /\ UNCHANGED <<contenido, productos, cajas, variante, otros>>

\* GestorPedidos.agregarElemento(elemento)
AgregarElemento(e) ==
    /\ Len(elementos) < MaxElementos
    /\ elementos' = Append(elementos, e)
    /\ ultimo' = Llamada("agregarElemento", "-", e, undefined, "Agregado al pedido")
    /\ UNCHANGED <<contenido, productos, cajas, variante, otros>>

\* a call of calcularPrecio() on element e
CalcularPrecio(e) ==
    /\ ultimo' = Llamada("calcularPrecio", "-", e, calcularPrecio(e), "-")
    /\ UNCHANGED <<contenido, elementos, productos, cajas, variante, otros>>

\* a call of GestorPedidos.calcularPrecioTotal()
CalcularPrecioTotal ==
    /\ ultimo' = Llamada("calcularPrecioTotal", "-", "-", calcularPrecioTotal, "-")
    /\ UNCHANGED <<contenido, elementos, productos, cajas, variante, otros>>

\* a call of Caja.obtenerTodosLosProductos() on box c
ObtenerTodosLosProductos(c) ==
    /\ variante # "ts"
    /\ ultimo' = Llamada("obtenerTodosLosProductos", c, "-",
                         obtenerTodosLosProductos(c), "-")
    /\ UNCHANGED <<contenido, elementos, productos, cajas, variante, otros>>

Next ==
    \/ \E c \in Cajas, e \in Elementos : Agregar(c, e)
    \/ \E c \in Cajas, e \in Elementos : Remover(c, e)
    \/ \E e \in Elementos : AgregarElemento(e)
    \/ \E e \in Elementos : CalcularPrecio(e)
    \/ CalcularPrecioTotal
    \/ \E c \in Cajas : ObtenerTodosLosProductos(c)

Spec == Init /\ [][Next]_vars

\* levels passed to obtenerDescripcion by a caller
Niveles == {0, 1}

\* variant of obtenerDescripcion that reverses the children in place while
\* it walks them
ObtenerDescripcionQueInvierte(e, nivel) ==
    /\ ultimo' = Llamada("obtenerDescripcion", "-", e, obtenerDescripcion(e, nivel), "-")
    /\ contenido' = IF e \in DOMAIN cajas
                    THEN [contenido EXCEPT ![e] =
                            [k \in 1..Len(@) |-> @[Len(@) + 1 - k]]]
                    ELSE contenido
    /\ UNCHANGED <<elementos, productos, cajas, variante, otros>>

\* a call of obtenerDescripcion(nivel) on element e
ObtenerDescripcion(e, nivel) ==
    /\ ultimo' = Llamada("obtenerDescripcion", "-", e, obtenerDescripcion(e, nivel), "-")
    /\ UNCHANGED <<contenido, elementos, productos, cajas, variante, otros>>

\* a call of GestorPedidos.obtenerEstadisticas()
ObtenerEstadisticas ==
    /\ ultimo' = Llamada("obtenerEstadisticas", "-", "-", obtenerEstadisticas, "-")
    /\ UNCHANGED <<contenido, elementos, productos, cajas, variante, otros>>

\* a call of Caja.estaLlena() on box c
EstaLlena(c) ==
    /\ ultimo' = Llamada("estaLlena", c, "-", Valor(estaLlena(c)), "-")
    /\ UNCHANGED <<contenido, elementos, productos, cajas, variante, otros>>

\* variant of generarDiagrama that rounds the price of every product it draws
\* and stores it back
GenerarDiagramaQueRedondea(e) ==
    /\ ultimo' = Llamada("generarDiagrama", "-", e, generarDiagrama(e), "-")
    /\ productos' = [p \in DOMAIN productos |->
                       [productos[p] EXCEPT !.precio = (@ \div 100) * 100]]
    /\ UNCHANGED <<contenido, elementos, cajas, variante, otros>>

\* a call of GeneradorDiagramaMermaid.generarDiagrama(elemento)
GenerarDiagrama(e) ==
    /\ ultimo' = Llamada("generarDiagrama", "-", e, generarDiagrama(e), "-")
    /\ UNCHANGED <<contenido, elementos, productos, cajas, variante, otros>>

\* the JavaScript classes (Producto, Caja, GestorPedidos and the diagram
\* generator of the same file) after construction
InitConsultas ==
    /\ Init
    /\ variante = "js"

NextConsultas ==
    \/ \E c \in Cajas, e \in Elementos : Agregar(c, e)
    \/ \E c \in Cajas, e \in Elementos : Remover(c, e)
    \/ \E e \in Elementos : AgregarElemento(e)
    \/ \E e \in Elementos : CalcularPrecio(e)
    \/ CalcularPrecioTotal
    \/ \E c \in Cajas : ObtenerTodosLosProductos(c)
    \/ \E e \in Elementos, nivel \in Niveles : ObtenerDescripcion(e, nivel)
    \/ ObtenerEstadisticas
    \/ \E c \in Cajas : EstaLlena(c)
    \/ \E e \in Elementos : GenerarDiagrama(e)

SpecConsultas == InitConsultas /\ [][NextConsultas]_vars

(* ---------------------------------------------------------------------- *)
(* Reference computations used to state the properties                     *)
(* ---------------------------------------------------------------------- *)

\* the boxes among the direct children of box c
CajasHijas(c) == {contenido[c][i] : i \in 1..Len(contenido[c])} \cap DOMAIN cajas

RECURSIVE Cerrar(_, _)

\* S together with every box reached from S in at most n steps
Cerrar(S, n) ==
    IF n = 0 THEN S ELSE Cerrar(S \cup UNION {CajasHijas(x) : x \in S}, n - 1)

\* the boxes nested at any depth inside box c
Descendientes(c) == Cerrar(CajasHijas(c), Cardinality(DOMAIN cajas))

\* no box at or below e contains itself: the structure under e is finite
Aciclico(e) ==
    \/ e \in DOMAIN productos
    \/ \A x \in {e} \cup Descendientes(e) : x \notin Descendientes(x)

\* every top-level element of the order is acyclic
PedidoAciclico == \A i \in 1..Len(elementos) : Aciclico(elementos[i])

\* the amount a node contributes by itself
CostoPropio(e) ==
    IF e \in DOMAIN productos THEN productos[e].precio ELSE cajas[e].costoCaja

RECURSIVE SumaCostos(_), Expandir(_), SumaNiveles(_), HojasNiveles(_), Recorrer(_, _)

\* sum of the own amounts of the nodes of one level
SumaCostos(nivel) ==
    IF nivel = <<>> THEN 0 ELSE CostoPropio(Head(nivel)) + SumaCostos(Tail(nivel))

\* the next level: the children of the boxes of this level
Expandir(nivel) ==
    IF nivel = <<>> THEN <<>>
    ELSE (IF Head(nivel) \in DOMAIN cajas THEN contenido[Head(nivel)] ELSE <<>>)
         \o Expandir(Tail(nivel))

\* level by level: own amounts of every node of a finite structure
SumaNiveles(nivel) ==
    IF nivel = <<>> THEN 0 ELSE SumaCostos(nivel) + SumaNiveles(Expandir(nivel))

\* level by level: number of Producto occurrences of a finite structure
HojasNiveles(nivel) ==
    IF nivel = <<>> THEN 0
    ELSE Cardinality({i \in 1..Len(nivel) : nivel[i] \in DOMAIN productos})
         + HojasNiveles(Expandir(nivel))

\* handling costs of all boxes and prices of all products at or below e
SumaSubarbol(e) == SumaNiveles(<<e>>)

\* number of Producto leaves anywhere below box c
HojasSubarbol(c) == HojasNiveles(contenido[c])

\* pre-order walk with an explicit list of pending nodes
Recorrer(pendientes, salida) ==
    IF pendientes = <<>> THEN salida
    ELSE IF Head(pendientes) \in DOMAIN productos
         THEN Recorrer(Tail(pendientes), Append(salida, Head(pendientes)))
         ELSE Recorrer(contenido[Head(pendientes)] \o Tail(pendientes), salida)

RECURSIVE SumaPrimeros(_), SumaSubarboles(_)

\* sum of calcularPrecio() over the first n elements of the order
SumaPrimeros(n) ==
    IF n = 0 THEN Valor(0)
    ELSE Mas(calcularPrecio(elementos[n]), SumaPrimeros(n - 1))

\* sum of the subtree amounts of a list of elements
SumaSubarboles(s) ==
    IF s = <<>> THEN 0 ELSE SumaSubarbol(Head(s)) + SumaSubarboles(Tail(s))

\* s without its k-th entry (1-based)
SinPosicion(s, k) == SubSeq(s, 1, k - 1) \o SubSeq(s, k + 1, Len(s))

\* the last call was agregar and it found the box full
AgregarRechazado == ultimo.op = "agregar" /\ ultimo.consola = "capacidad maxima"

(* ---------------------------------------------------------------------- *)
(* Properties                                                              *)
(* ---------------------------------------------------------------------- *)

\* C1: capacity invariant - after any sequence of agregar and remover calls
\* no box holds more direct children than its capacidadMaxima.
C1_Capacidad ==
    \A c \in Cajas : Len(contenido[c]) <= cajas[c].capacidadMaxima

\* C1 witness: an agregar was answered on a box that holds exactly
\* capacidadMaxima children.
C1_Witness ==
    /\ ultimo.op = "agregar"
    /\ Len(contenido[ultimo.caja]) = cajas[ultimo.caja].capacidadMaxima
    /\ cajas[ultimo.caja].capacidadMaxima >= 2

\* C2: recursive aggregation - the price of a box is its costoCaja plus the
\* prices of its direct children, and on a finite structure it is the sum of
\* the costoCaja of every box and the precio of every product below it.
C2_Agregacion ==
    \A c \in Cajas :
        /\ calcularPrecio(c) =
             LET hijos == contenido[c]
                 F[n \in 0..Len(hijos)] ==
                     IF n = 0 THEN Valor(cajas[c].costoCaja)
                     ELSE Mas(F[n - 1], calcularPrecio(hijos[n]))
             IN  F[Len(hijos)]
        /\ Aciclico(c) => calcularPrecio(c) = Valor(SumaSubarbol(c))

\* C2 witness: a box that holds a product and a non-empty box, two levels deep.
C2_Witness ==
    \E c \in Cajas, d \in Cajas :
        /\ Aciclico(c)
        /\ Len(contenido[c]) = 2
        /\ d \in CajasHijas(c)
        /\ \E i \in 1..2 : contenido[c][i] \in Productos
        /\ contenido[d] # <<>>

\* C3: order total additivity - the total is the sum of the prices of the
\* elements of the order, and agregarElemento(e) raises nothing, appends e
\* and raises the total by the price e has at that moment.
C3_Aditividad ==
    /\ [](calcularPrecioTotal = SumaPrimeros(Len(elementos)))
    /\ [][ultimo'.op = "agregarElemento" =>
            /\ ~ultimo'.excepcion
            /\ elementos' = Append(elementos, ultimo'.elem)
            /\ calcularPrecioTotal' =
                 Mas(calcularPrecioTotal, calcularPrecio(ultimo'.elem))]_vars

\* C3 witness: an element was appended to an order that already held one,
\* and the new element is a box with contents.
C3_Witness ==
    /\ ultimo.op = "agregarElemento"
    /\ Len(elementos) >= 2
    /\ ultimo.elem \in Cajas
    /\ contenido[ultimo.elem] # <<>>
    /\ PedidoAciclico

\* C4: an agregar on a box that already holds capacidadMaxima children leaves
\* the contents of that box exactly as they were.
C4_LlenaSinCambio ==
    [][\A c \in Cajas :
         (/\ ultimo'.op = "agregar"
          /\ ultimo'.caja = c
          /\ Len(contenido[c]) >= cajas[c].capacidadMaxima)
         => contenido'[c] = contenido[c]]_vars

\* C4 witness: an agregar was rejected on a box that is full with two children.
C4_Witness ==
    /\ AgregarRechazado
    /\ Len(contenido[ultimo.caja]) = 2

\* C5 (as claimed): a rejected agregar hands the caller an outcome that
\* differs from the one of a successful agregar, and raises nothing.
C5_Original ==
    ultimo.op = "agregar" =>
        /\ ~ultimo.excepcion
        /\ AgregarRechazado => ultimo.retorno # undefined

\* C5 (amended): agregar raises nothing and returns undefined whether or not
\* it added; the rejection is only a warning line on the console, written
\* exactly when the box was full, and the success line is written otherwise.
C5_SoloAviso ==
    [][ultimo'.op = "agregar" =>
         /\ ~ultimo'.excepcion
         /\ ultimo'.retorno = undefined
         /\ IF Len(contenido[ultimo'.caja]) >= cajas[ultimo'.caja].capacidadMaxima
            THEN ultimo'.consola = "capacidad maxima"
            ELSE ultimo'.consola = "Agregado"]_vars

\* C5 witness: a rejected agregar that returned undefined.
C5_Witness ==
    /\ AgregarRechazado
    /\ ultimo.retorno = undefined
    /\ ~ultimo.excepcion

\* C6: an agregar on a box with room appends the element - the length grows
\* by one, the previous children keep their places, the new one is last.
C6_AgregaAlFinal ==
    [][\A c \in Cajas :
         (/\ ultimo'.op = "agregar"
          /\ ultimo'.caja = c
          /\ Len(contenido[c]) < cajas[c].capacidadMaxima)
         => /\ Len(contenido'[c]) = Len(contenido[c]) + 1
            /\ \A i \in 1..Len(contenido[c]) : contenido'[c][i] = contenido[c][i]
            /\ contenido'[c][Len(contenido'[c])] = ultimo'.elem]_vars

\* C6 witness: a second, different child was appended to a box.
C6_Witness ==
    /\ ultimo.op = "agregar"
    /\ ultimo.consola = "Agregado"
    /\ Len(contenido[ultimo.caja]) = 2
    /\ contenido[ultimo.caja][1] # contenido[ultimo.caja][2]
    /\ contenido[ultimo.caja][2] = ultimo.elem

\* C7 (as claimed): remover(e) takes out the first direct child that is the
\* same object as e or has the same field values as e.
C7_Original ==
    [][\A c \in Cajas :
         (/\ ultimo'.op = "remover"
          /\ ultimo'.caja = c
          /\ \E i \in 1..Len(contenido[c]) : MismosCampos(contenido[c][i], ultimo'.elem))
         => LET k == CHOOSE i \in 1..Len(contenido[c]) :
                       /\ MismosCampos(contenido[c][i], ultimo'.elem)
                       /\ \A j \in 1..(i - 1) : ~MismosCampos(contenido[c][j], ultimo'.elem)
            IN  contenido'[c] = SinPosicion(contenido[c], k)]_vars

\* C7 (amended): remover(e) takes out the first direct child that is the same
\* object as e and keeps the others in place and in order; a child that only
\* has the same field values does not match, and without a match nothing is
\* removed.
C7_PorReferencia ==
    [][\A c \in Cajas :
         (ultimo'.op = "remover" /\ ultimo'.caja = c)
         => /\ \A d \in Cajas \ {c} : contenido'[d] = contenido[d]
            /\ IF \E i \in 1..Len(contenido[c]) : contenido[c][i] = ultimo'.elem
               THEN LET k == CHOOSE i \in 1..Len(contenido[c]) :
                               /\ contenido[c][i] = ultimo'.elem
                               /\ \A j \in 1..(i - 1) : contenido[c][j] # ultimo'.elem
                    IN  contenido'[c] = SinPosicion(contenido[c], k)
               ELSE contenido'[c] = contenido[c]]_vars

\* C7 witness: remover(p1) answered not-found on a box whose only child is p2,
\* an object with the same field values, and the box still holds p2.
C7_Witness ==
    /\ ultimo.op = "remover"
    /\ ultimo.elem = "p1"
    /\ ultimo.consola # "Removido"
    /\ contenido[ultimo.caja] = <<"p2">>
    /\ productos["p1"] = productos["p2"]

\* C8 (as claimed): in every variant of Caja, remover of an element that is
\* not a direct child reports not-found and changes no contents.
C8_NoEncontrado ==
    [][\A c \in Cajas :
         (/\ ultimo'.op = "remover"
          /\ ultimo'.caja = c
          /\ \A i \in 1..Len(contenido[c]) : contenido[c][i] # ultimo'.elem)
         => /\ ultimo'.consola = "No se encontro"
            /\ contenido' = contenido]_vars

\* C9: live totals - after a box at any depth of an order gained or lost a
\* child, the prices of the box and of its ancestors and the total of the
\* order are those of the tree as it is now, and a price call returns them.
C9_TotalesVivos ==
    /\ (ultimo.op \in {"agregar", "remover"} /\ PedidoAciclico)
         => calcularPrecioTotal = Valor(SumaSubarboles(elementos))
    /\ ultimo.op \in {"agregar", "remover"}
         => \A a \in Cajas :
              (Aciclico(a) /\ ultimo.caja \in {a} \cup Descendientes(a))
              => calcularPrecio(a) = Valor(SumaSubarbol(a))
    /\ (ultimo.op = "calcularPrecioTotal" /\ PedidoAciclico)
         => ultimo.retorno = Valor(SumaSubarboles(elementos))
    /\ (ultimo.op = "calcularPrecio" /\ Aciclico(ultimo.elem))
         => ultimo.retorno = Valor(SumaSubarbol(ultimo.elem))

\* C9 witness: a box nested in a box that is already in the order has just
\* gained a child.
C9_Witness ==
    /\ ultimo.op = "agregar"
    /\ ultimo.consola = "Agregado"
    /\ PedidoAciclico
    /\ \E i \in 1..Len(elementos) :
         /\ elementos[i] \in Cajas
         /\ ultimo.caja \in Descendientes(elementos[i])

\* C10: obtenerTodosLosProductos of a box with a finite structure returns the
\* Producto leaves below it in depth-first left-to-right order: as many as
\* there are leaves at any depth, and no box among them.
C10_TodosLosProductos ==
    \A c \in Cajas :
        Aciclico(c) =>
            LET r == obtenerTodosLosProductos(c) IN
            /\ r # RangeError
            /\ r.valor = Recorrer(contenido[c], <<>>)
            /\ Len(r.valor) = HojasSubarbol(c)
            /\ \A i \in 1..Len(r.valor) : r.valor[i] \in Productos

\* C10 witness: the call was made on a box that holds a non-empty box first
\* and a product after it.
C10_Witness ==
    /\ ultimo.op = "obtenerTodosLosProductos"
    /\ Aciclico(ultimo.caja)
    /\ Len(contenido[ultimo.caja]) = 2
    /\ contenido[ultimo.caja][1] \in Cajas
    /\ contenido[contenido[ultimo.caja][1]] # <<>>
    /\ contenido[ultimo.caja][2] \in Productos
    /\ Len(ultimo.retorno.valor) = 2


\* ---- the demonstration scenario ----

\* the agregar calls of the demonstration, as <<box, element>>
Guion ==
    { <<"perifericos", "mouse">>, <<"perifericos", "teclado">>,
      <<"electronicos", "laptop">>, <<"electronicos", "monitor">>,
      <<"envio", "perifericos">>, <<"envio", "libro">>,
      <<"premium", "perifericos">>, <<"premium", "electronicos">>,
      <<"premium", "libro">> }

\* the products and boxes of the demonstration, prices in cents, before any
\* agregar
InitEscenario ==
    /\ productos = [mouse   |-> Producto("Mouse Inalambrico", 2599, "Perifericos"),
                    teclado |-> Producto("Teclado Mecanico", 8999, "Perifericos"),
                    libro   |-> Producto("Libro TypeScript", 4500, "Libros"),
                    laptop  |-> Producto("Laptop Gaming", 120000, "Electronicos"),
                    monitor |-> Producto("Monitor 24", 29999, "Electronicos")]
    /\ cajas = [perifericos  |-> Caja("Caja Perifericos", 500, "Acolchada", 5),
                electronicos |-> Caja("Caja Electronicos", 1500, "Antiestatica", 3),
                envio        |-> Caja("Caja Envio", 1000, "Reforzada", 8),
                premium      |-> Caja("Envio Premium", 1000, "Reforzada", 8)]
    /\ contenido = [c \in DOMAIN cajas |-> <<>>]
    /\ elementos = <<>>
    /\ variante = "js"
    /\ ultimo = Llamada("new", "-", "-", undefined, "-")
    /\ OtrosEnReposo

\* one agregar of the demonstration that has not been made yet
AgregarDelGuion ==
    \E par \in Guion :
        /\ indexOf(contenido[par[1]], par[2]) = -1
        /\ Agregar(par[1], par[2])

\* calcularPrecio on one of the boxes of the demonstration
PrecioDelGuion == \E c \in DOMAIN cajas : CalcularPrecio(c)

NextEscenario == AgregarDelGuion \/ PrecioDelGuion

SpecEscenario == InitEscenario /\ [][NextEscenario]_vars

\* ---- construction ----

\* values the constructors are called with
Precios == {-100, 2599}
Costos == {-500, 1000}
Capacidades == {0, 1}

\* nothing constructed yet
InitConstruccion ==
    /\ productos = [x \in {} |-> Producto("-", 0, "-")]
    /\ cajas = [x \in {} |-> Caja("-", 0, "-", 0)]
    /\ contenido = [x \in {} |-> <<>>]
    /\ elementos = <<>>
    /\ variante = "js"
    /\ ultimo = Llamada("new", "-", "-", undefined, "-")
    /\ OtrosEnReposo

\* new Producto(nombre, precio, categoria)
NuevoProducto(p, precio) ==
    /\ p \notin DOMAIN productos
    /\ productos' = productos @@ (p :> Producto("Mouse", precio, "Perifericos"))
    /\ ultimo' = Llamada("new Producto", "-", p, undefined, "-")
    /\ UNCHANGED <<contenido, elementos, cajas, variante, otros>>

\* new Caja(nombre, costoCaja, tipoEmpaque, capacidadMaxima)
NuevaCaja(c, costoCaja, capacidadMaxima) ==
    /\ c \notin DOMAIN cajas
    /\ cajas' = cajas @@ (c :> Caja("Envio", costoCaja, "Reforzada", capacidadMaxima))
    /\ contenido' = contenido @@ (c :> <<>>)
    /\ ultimo' = Llamada("new Caja", c, "-", undefined, "-")
    /\ UNCHANGED <<elementos, productos, variante, otros>>

NextConstruccion ==
    \/ \E p \in Productos, precio \in Precios : NuevoProducto(p, precio)
    \/ \E c \in Cajas, costoCaja \in Costos, capacidadMaxima \in Capacidades :
         NuevaCaja(c, costoCaja, capacidadMaxima)
    \/ \E c \in DOMAIN cajas, e \in DOMAIN productos \cup DOMAIN cajas : Agregar(c, e)
    \/ \E e \in DOMAIN productos \cup DOMAIN cajas : CalcularPrecio(e)

SpecConstruccion == InitConstruccion /\ [][NextConstruccion]_vars

RECURSIVE NodosNiveles(_), RecorrerTodo(_, _)

\* level by level: number of node occurrences of a finite structure
NodosNiveles(nivel) ==
    IF nivel = <<>> THEN 0 ELSE Len(nivel) + NodosNiveles(Expandir(nivel))

\* pre-order walk with an explicit list of pending <<node, depth>> pairs,
\* boxes included
RecorrerTodo(pendientes, salida) ==
    IF pendientes = <<>> THEN salida
    ELSE LET e == Head(pendientes)[1]
             d == Head(pendientes)[2]
             hijos == IF e \in DOMAIN cajas
                      THEN [k \in 1..Len(contenido[e]) |-> <<contenido[e][k], d + 1>>]
                      ELSE <<>>
         IN  RecorrerTodo(hijos \o Tail(pendientes), Append(salida, <<e, d>>))

\* e is a direct child of box c
EsHijo(c, e) == \E i \in 1..Len(contenido[c]) : contenido[c][i] = e

\* number of places (contents of boxes, elements of the order) that hold e
Apariciones(e) ==
    Cardinality({<<c, i>> \in Cajas \X (1..Len(elementos) + Cardinality(Elementos) * 4) :
                   i <= Len(contenido[c]) /\ contenido[c][i] = e})
    + Cardinality({i \in 1..Len(elementos) : elementos[i] = e})

\* C11: calcularPrecio and obtenerDescripcion are pure reads - a call leaves
\* every contenido and the elementos as they were, and the same call made
\* again right after it returns the same result.
C11_LecturasPuras ==
    [][\A e \in Elementos :
         /\ (ultimo'.op = "calcularPrecio" /\ ultimo'.elem = e) =>
              /\ contenido' = contenido
              /\ elementos' = elementos
              /\ ultimo'.retorno = calcularPrecio(e)
              /\ ultimo'.retorno = calcularPrecio(e)'
         /\ (ultimo'.op = "obtenerDescripcion" /\ ultimo'.elem = e) =>
              /\ contenido' = contenido
              /\ elementos' = elementos
              /\ \E nivel \in Niveles :
                   /\ ultimo'.retorno = obtenerDescripcion(e, nivel)
                   /\ ultimo'.retorno = obtenerDescripcion(e, nivel)']_vars

\* C11 witness: obtenerDescripcion returned the lines of a box that holds two
\* different children.
C11_Witness ==
    /\ ultimo.op = "obtenerDescripcion"
    /\ ultimo.elem \in Cajas
    /\ Len(contenido[ultimo.elem]) = 2
    /\ contenido[ultimo.elem][1] # contenido[ultimo.elem][2]
    /\ ultimo.retorno # RangeError
    /\ Len(ultimo.retorno.valor) >= 3

C13_Arbol ==
    /\ \A e \in Elementos : Apariciones(e) <= 1
    /\ \A c \in Cajas : c \notin Descendientes(c)

\* C14: no cycle protection - agregar on a box with room accepts the box
\* itself and any box that contains it, and on a structure with a cycle the
\* recursion of calcularPrecio never reaches its end: it uses up every call
\* stack and returns no price.
C14_SinProteccion ==
    /\ [][\A c \in Cajas :
            (/\ ultimo'.op = "agregar"
             /\ ultimo'.caja = c
             /\ ~estaLlena(c)
             /\ ultimo'.elem \in Cajas
             /\ (ultimo'.elem = c \/ c \in Descendientes(ultimo'.elem)))
            => /\ contenido'[c] = Append(contenido[c], ultimo'.elem)
               /\ (c \in Descendientes(c))']_vars
    /\ [](\A c \in Cajas :
            ~Aciclico(c) =>
                /\ \A pila \in 1..MaxPila : PrecioEn(c, pila) = RangeError
                /\ calcularPrecio(c) = RangeError)
    /\ []((ultimo.op = "calcularPrecio" /\ ~Aciclico(ultimo.elem))
            => ultimo.excepcion)

\* C14 witness: calcularPrecio was called on a box that holds a box that
\* holds the first one, and it raised.
C14_Witness ==
    /\ ultimo.op = "calcularPrecio"
    /\ ultimo.elem = "c1"
    /\ EsHijo("c1", "c2")
    /\ EsHijo("c2", "c1")
    /\ ultimo.excepcion

\* C15: a Producto keeps the nombre, precio and categoria it was constructed
\* with through every call, and calcularPrecio returns that precio.
C15_ProductoInmutable ==
    /\ [][productos' = productos]_vars
    /\ [](\A p \in Productos :
            /\ productos[p] = Producto("Mouse", 2599, "Perifericos")
            /\ calcularPrecio(p) = Valor(2599))
    /\ []((ultimo.op = "calcularPrecio" /\ ultimo.elem \in Productos)
            => ultimo.retorno = Valor(2599))

\* C15 witness: calcularPrecio was called on a product that sits in a box
\* that is an element of the order.
C15_Witness ==
    /\ ultimo.op = "calcularPrecio"
    /\ ultimo.elem \in Productos
    /\ \E i \in 1..Len(elementos) :
         elementos[i] \in Cajas /\ EsHijo(elementos[i], ultimo.elem)

\* C16: obtenerEstadisticas returns the number of elements of the order, the
\* number of boxes among them (nested boxes not counted), the number of
\* top-level products plus the product leaves below every top-level box, and
\* the total price divided by the number of elements (0 for an empty order).
C16_Estadisticas ==
    PedidoAciclico =>
        LET r == obtenerEstadisticas
            n == Len(elementos)
            arriba == {i \in 1..n : elementos[i] \in Productos}
            anidados[k \in 0..n] ==
                IF k = 0 THEN 0
                ELSE anidados[k - 1] + (IF elementos[k] \in Cajas
                                        THEN HojasSubarbol(elementos[k]) ELSE 0)
        IN  /\ r # RangeError
            /\ r.valor.totalElementos = n
            /\ r.valor.totalCajas = Cardinality({i \in 1..n : elementos[i] \in Cajas})
            /\ r.valor.totalProductos = Cardinality(arriba) + anidados[n]
            /\ r.valor.precioPromedio.den > 0
            /\ IF n = 0 THEN r.valor.precioPromedio.num = 0
               ELSE r.valor.precioPromedio.num * n
                    = SumaSubarboles(elementos) * r.valor.precioPromedio.den
            /\ ultimo.op = "obtenerEstadisticas" => ultimo.retorno = r

\* C16 witness: the statistics of an order that holds a product and a box
\* with a non-empty box inside.
C16_Witness ==
    /\ ultimo.op = "obtenerEstadisticas"
    /\ PedidoAciclico
    /\ \E i \in 1..Len(elementos) : elementos[i] \in Productos
    /\ \E i \in 1..Len(elementos) :
         /\ elementos[i] \in Cajas
         /\ \E d \in CajasHijas(elementos[i]) : contenido[d] # <<>>
    /\ ultimo.retorno.valor.totalCajas = 1
    /\ ultimo.retorno.valor.totalProductos >= 2

\* C17: obtenerDescripcion(n) of a box with a finite structure has one line
\* per node below and including it, in depth-first pre-order of insertion; the
\* line of a node d levels down starts with 2*(n+d) spaces; an empty box
\* shows the empty marker and a box with children shows current/max.
C17_Descripcion ==
    \A c \in Cajas, n \in 0..2 :
        Aciclico(c) =>
            LET r == obtenerDescripcion(c, n)
                camino == RecorrerTodo(<<<<c, 0>>>>, <<>>)
            IN  /\ r # RangeError
                /\ Len(r.valor) = NodosNiveles(<<c>>)
                /\ Len(r.valor) = Len(camino)
                /\ \A i \in 1..Len(r.valor) :
                     LET l == r.valor[i] IN
                     /\ l.elem = camino[i][1]
                     /\ Len(l.indentacion) = 2 * (n + camino[i][2])
                     /\ \A k \in 1..Len(l.indentacion) : l.indentacion[k] = " "
                     /\ l.elem \in Cajas =>
                          l.ocupacion =
                            IF contenido[l.elem] = <<>> THEN <<>>
                            ELSE <<Len(contenido[l.elem]),
                                   cajas[l.elem].capacidadMaxima>>

\* C17 witness: obtenerDescripcion(1) returned the lines of a box that holds
\* a non-empty box and something else.
C17_Witness ==
    /\ ultimo.op = "obtenerDescripcion"
    /\ ultimo.elem \in Cajas
    /\ Aciclico(ultimo.elem)
    /\ Len(contenido[ultimo.elem]) = 2
    /\ \E d \in CajasHijas(ultimo.elem) : contenido[d] # <<>>
    /\ Len(ultimo.retorno.valor[1].indentacion) = 2
    /\ Len(ultimo.retorno.valor) >= 4

\* C18: estaLlena is true exactly when the box holds capacidadMaxima children
\* or more, and exactly then the next agregar on the box is rejected.
C18_LlenaSiRechaza ==
    /\ [](\A c \in Cajas :
            estaLlena(c) <=> Len(contenido[c]) >= cajas[c].capacidadMaxima)
    /\ [](ultimo.op = "estaLlena" =>
            ultimo.retorno
              = Valor(Len(contenido[ultimo.caja]) >= cajas[ultimo.caja].capacidadMaxima))
    /\ [][ultimo'.op = "agregar" =>
            (estaLlena(ultimo'.caja)
               <=> (ultimo'.consola = "capacidad maxima" /\ contenido' = contenido))]_vars

\* C18 witness: estaLlena answered true on a box with two children.
C18_Witness ==
    /\ ultimo.op = "estaLlena"
    /\ ultimo.retorno = Valor(TRUE)
    /\ Len(contenido[ultimo.caja]) = 2


\* the agregar calls of the demonstration made on box c have all been made,
\* and nothing else is in it
Completa(c) ==
    /\ \A par \in Guion : par[1] = c => EsHijo(c, par[2])
    /\ Len(contenido[c]) = Cardinality({par \in Guion : par[1] = c})

C20_Validado ==
    /\ \A p \in DOMAIN productos : productos[p].precio >= 0
    /\ \A c \in DOMAIN cajas :
         cajas[c].costoCaja >= 0 /\ cajas[c].capacidadMaxima > 0

(* ---------------------------------------------------------------------- *)
(* The promise exercise: validarStock and procesarTransaccion              *)
(* ---------------------------------------------------------------------- *)

\* no object of the order system exists
PedidosEnReposo ==
    /\ contenido = <<>>
    /\ elementos = <<>>
    /\ productos = <<>>
    /\ cajas = <<>>
    /\ variante = "js"
    /\ ultimo = Llamada("new", "-", "-", undefined, "-")

\* the calls of procesarTransaccion that are followed
Transacciones == {"t1", "t2"}

\* arguments the calls are made with
ProductoIds == {10, 99, 100}
MetodosPago == {"Tarjeta", "Paypal"}

\* states of a promise
Pending == [estado |-> "pending"]
Resolved(v) == [estado |-> "resolved", valor |-> v]
Rejected(v) == [estado |-> "rejected", valor |-> v]

\* a call of procesarTransaccion that has not been made
SinLlamar ==
    [productoId |-> 0, metodoPago |-> "-", paso |-> "sin llamar",
     consola |-> <<>>, validacion |-> [estado |-> "-"],
     pago |-> [estado |-> "-"], promesa |-> [estado |-> "-"]]

InitTransaccion ==
    /\ transacciones = [t \in Transacciones |-> SinLlamar]
    /\ PedidosEnReposo
    /\ ArchivosEnReposo
    /\ ServicioEnReposo
    /\ ProductosEnReposo

\* what the promise exercise leaves alone
fueraDeTransaccion ==
    <<sistemaPedidos, varsArchivos, varsServicio, varsProductos>>

\* procesarTransaccion(productoId, metodoPago) up to its first await: writes
\* line 1 and calls validarStock, which returns a pending promise and sets
\* its timer
procesarTransaccion(t, productoId, metodoPago) ==
    /\ transacciones[t].paso = "sin llamar"
    /\ transacciones' = [transacciones EXCEPT ![t] =
          [productoId |-> productoId, metodoPago |-> metodoPago,
           paso |-> "await validarStock",
           consola |-> <<"1. Iniciando">>,
           validacion |-> Pending,
           pago |-> [estado |-> "-"],
           promesa |-> Pending]]
    /\ UNCHANGED fueraDeTransaccion

\* the setTimeout callback of validarStock
validarStock(t) ==
    /\ transacciones[t].validacion = Pending
    /\ transacciones' = [transacciones EXCEPT ![t].validacion =
          IF transacciones[t].productoId = 99
          THEN Rejected("Producto 99 no tiene stock.")
          ELSE Resolved(<<"Stock validado", transacciones[t].productoId>>)]
    /\ UNCHANGED fueraDeTransaccion

\* variant of the first await that goes on to the payment while the promise
\* of validarStock is still pending
ReanudarSinEsperarStock(t) ==
    /\ transacciones[t].paso = "await validarStock"
    /\ IF transacciones[t].validacion.estado # "rejected"
       THEN transacciones' = [transacciones EXCEPT
               ![t].consola = Append(@, "2. Stock verificado"),
               ![t].pago = Pending,
               ![t].paso = "await pago"]
       ELSE transacciones' = [transacciones EXCEPT
               ![t].consola = Append(@, "ERROR CRITICO"),
               ![t].promesa = Resolved("Transaccion Fallida."),
               ![t].paso = "fin"]
    /\ UNCHANGED fueraDeTransaccion

\* procesarTransaccion resumed after await validarStock(productoId): line 2
\* and the payment timer, or the catch block
ReanudarTrasStock(t) ==
    /\ transacciones[t].paso = "await validarStock"
    /\ transacciones[t].validacion.estado \in {"resolved", "rejected"}
    /\ IF transacciones[t].validacion.estado = "resolved"
       THEN transacciones' = [transacciones EXCEPT
               ![t].consola = Append(@, "2. Stock verificado"),
               ![t].pago = Pending,
               ![t].paso = "await pago"]
       ELSE transacciones' = [transacciones EXCEPT
               ![t].consola = Append(@, "ERROR CRITICO"),
               ![t].promesa = Resolved("Transaccion Fallida."),
               ![t].paso = "fin"]
    /\ UNCHANGED fueraDeTransaccion

\* the setTimeout callback of the payment promise
ProcesarPago(t) ==
    /\ transacciones[t].pago = Pending
    /\ transacciones' = [transacciones EXCEPT ![t].pago =
          Resolved(<<"Pago procesado", transacciones[t].metodoPago>>)]
    /\ UNCHANGED fueraDeTransaccion

\* procesarTransaccion resumed after the payment await: line 3 and return
ReanudarTrasPago(t) ==
    /\ transacciones[t].paso = "await pago"
    /\ transacciones[t].pago.estado = "resolved"
    /\ transacciones' = [transacciones EXCEPT
          ![t].consola = Append(@, "3. Pago completado"),
          ![t].promesa = Resolved("Transaccion Finalizada con Exito."),
          ![t].paso = "fin"]
    /\ UNCHANGED fueraDeTransaccion

\* the steps the event loop takes once a call was made
Continuar(t) ==
    \/ validarStock(t)
    \/ ReanudarTrasStock(t)
    \/ ProcesarPago(t)
    \/ ReanudarTrasPago(t)

NextTransaccion ==
    \/ \E t \in Transacciones, productoId \in ProductoIds, metodoPago \in MetodosPago :
         procesarTransaccion(t, productoId, metodoPago)
    \/ \E t \in Transacciones : Continuar(t)

\* timers fire and settled promises resume their awaits
SpecTransaccion ==
    /\ InitTransaccion
    /\ [][NextTransaccion]_vars
    /\ \A t \in Transacciones : WF_vars(Continuar(t))

\* C21: in procesarTransaccion the payment starts only once validarStock has
\* resolved; for productoId 99 the payment never starts and the returned
\* promise resolves with 'Transaccion Fallida.'; for any other productoId
\* the lines 1, 2, 3 are written in this order and the promise resolves with
\* 'Transaccion Finalizada con Exito.'; the promise never rejects and every
\* call made ends.
C21_FlujoTransaccion ==
    /\ [](\A t \in Transacciones :
            LET x == transacciones[t] IN
            /\ x.pago.estado # "-" => x.validacion.estado = "resolved"
            /\ x.promesa.estado # "rejected"
            /\ x.productoId = 99 =>
                 /\ x.pago.estado = "-"
                 /\ x.paso = "fin" => x.promesa = Resolved("Transaccion Fallida.")
            /\ (x.paso # "sin llamar" /\ x.productoId # 99) =>
                 /\ \E n \in 1..3 :
                      x.consola = SubSeq(<<"1. Iniciando", "2. Stock verificado",
                                           "3. Pago completado">>, 1, n)
                 /\ x.paso = "fin" =>
                      /\ x.consola = <<"1. Iniciando", "2. Stock verificado",
                                       "3. Pago completado">>
                      /\ x.promesa = Resolved("Transaccion Finalizada con Exito."))
    /\ [][\A t \in Transacciones :
            (transacciones[t].pago.estado = "-" /\ transacciones'[t].pago.estado # "-")
            => transacciones[t].validacion.estado = "resolved"]_vars
    /\ \A t \in Transacciones :
         (transacciones[t].paso # "sin llamar")
           ~> (transacciones[t].promesa.estado = "resolved")

\* C21 witness: a call for productoId 99 ended as failed without a payment and
\* a call for productoId 10 ended after its three lines.
C21_Witness ==
    /\ transacciones # <<>>
    /\ \E t \in Transacciones :
         /\ transacciones[t].productoId = 99
         /\ transacciones[t].paso = "fin"
         /\ transacciones[t].promesa = Resolved("Transaccion Fallida.")
    /\ \E t \in Transacciones :
         /\ transacciones[t].productoId = 10
         /\ transacciones[t].paso = "fin"
         /\ Len(transacciones[t].consola) = 3

(* ---------------------------------------------------------------------- *)
(* The file system Composite: Component, Leaf, Composite                   *)
(* ---------------------------------------------------------------------- *)

\* largest number of children of one Composite that is explored
MaxHijos == 2

\* identities of the Composite and Leaf objects
Composites == {"sistema", "documentos"}
Leaves == {"archivo"}
Components == Composites \cup Leaves

\* the value null
null == [tipo |-> "null"]

\* what the file system Composite leaves alone
fueraDeArchivos ==
    <<sistemaPedidos, varsTransaccion, varsServicio, varsProductos>>

\* the objects right after their constructors: the field parent is declared
\* and never assigned, children is the empty array
InitArchivos ==
    /\ parent = [x \in Components |-> undefined]
    /\ children = [c \in Composites |-> <<>>]
    /\ PedidosEnReposo
    /\ TransaccionEnReposo
    /\ ServicioEnReposo
    /\ ProductosEnReposo

\* Component.getParent
getParent(x) == parent[x]

\* Composite.add(component): push, then component.setParent(this)
add(c, x) ==
    /\ Len(children[c]) < MaxHijos
    /\ children' = [children EXCEPT ![c] = Append(@, x)]
    /\ parent' = [parent EXCEPT ![x] = Valor(c)]
    /\ UNCHANGED fueraDeArchivos

\* Composite.remove(component): indexOf, splice and setParent(null) when the
\* component is a child
remove(c, x) ==
    /\ LET componentIndex == indexOf(children[c], x) IN
       IF componentIndex # -1
       THEN /\ children' = [children EXCEPT ![c] = splice(@, componentIndex)]
            /\ parent' = [parent EXCEPT ![x] = null]
       ELSE UNCHANGED <<children, parent>>
    /\ UNCHANGED fueraDeArchivos

NextArchivos ==
    \/ \E c \in Composites, x \in Components : add(c, x)
    \/ \E c \in Composites, x \in Components : remove(c, x)

SpecArchivos == InitArchivos /\ [][NextArchivos]_vars

\* x is in the children list of c
EnChildren(c, x) == \E i \in 1..Len(children[c]) : children[c][i] = x

\* C22 (as claimed): getParent() of every component is the Composite that
\* holds it, or null when no Composite holds it - a component that was never
\* added included.
C22_PadreONulo ==
    \A x \in Components :
        IF \E c \in Composites : EnChildren(c, x)
        THEN \E c \in Composites : EnChildren(c, x) /\ getParent(x) = Valor(c)
        ELSE getParent(x) = null

\* C27 (as claimed): a component is in the children list of a Composite
\* exactly when its getParent() is that Composite.
C27_PadreConsistente ==
    \A c \in Composites, x \in Components :
        EnChildren(c, x) <=> getParent(x) = Valor(c)

(* ---------------------------------------------------------------------- *)
(* GeneradorMermaid and GestorPedidosConDiagramas (TypeScript)             *)
(* ---------------------------------------------------------------------- *)

\* the virtual box that generarDiagramaConsolidado constructs; virtual is its
\* contenido wherever an operator below takes it
cajaConsolidada == "cajaConsolidada"

\* elemento instanceof Caja
EsCaja(e) == e \in DOMAIN cajas \/ e = cajaConsolidada

\* elemento.obtenerContenido()
HijosDe(e, virtual) == IF e = cajaConsolidada THEN virtual ELSE contenido[e]

\* a GeneradorMermaid right after its constructor
GeneradorNuevo == [contadorNodos |-> 0, mapaElementos |-> <<>>]

\* mapaElementos.has(elemento)
Registrado(g, e) ==
    \E i \in 1..Len(g.mapaElementos) : g.mapaElementos[i].elem = e

\* GeneradorMermaid.obtenerIdNodo: the generator after the call
obtenerIdNodo(g, e) ==
    IF Registrado(g, e) THEN g
    ELSE [contadorNodos |-> g.contadorNodos + 1,
          mapaElementos |-> Append(g.mapaElementos,
                                   [elem |-> e, id |-> g.contadorNodos])]

\* mapaElementos.get(elemento): the number in the id
IdDe(g, e) ==
    (g.mapaElementos[CHOOSE i \in 1..Len(g.mapaElementos) :
                        g.mapaElementos[i].elem = e]).id

RECURSIVE registrarElementos(_, _, _, _), RegistrarContenido(_, _, _, _)

\* GeneradorMermaid.registrarElementos with pila stack frames left
registrarElementos(e, g, pila, virtual) ==
    IF g = RangeError \/ pila = 0 THEN RangeError
    ELSE LET g1 == obtenerIdNodo(g, e) IN
         IF EsCaja(e)
         THEN RegistrarContenido(HijosDe(e, virtual), g1, pila - 1, virtual)
         ELSE g1

\* the for-of loop of registrarElementos
RegistrarContenido(s, g, pila, virtual) ==
    IF g = RangeError THEN RangeError
    ELSE IF s = <<>> THEN g
    ELSE RegistrarContenido(Tail(s),
                            registrarElementos(Head(s), g, pila, virtual),
                            pila, virtual)

\* Caja.calcularPrecio of the virtual box (costoCaja 0) or of an element
PrecioDe(e, virtual) ==
    IF e = cajaConsolidada THEN SumarContenido(virtual, Valor(0), MaxPila)
    ELSE calcularPrecio(e)

RECURSIVE DefinirNodos(_, _, _, _)

\* the loop of generarDiagrama over mapaElementos that calls
\* Producto.generarNodoMermaid / Caja.generarNodoMermaid
DefinirNodos(g, k, salida, virtual) ==
    IF k > Len(g.mapaElementos) THEN Valor(salida)
    ELSE LET e == g.mapaElementos[k].elem
             precio == IF EsCaja(e) THEN PrecioDe(e, virtual)
                       ELSE Valor(productos[e].precio)
         IN  IF precio = RangeError THEN RangeError
             ELSE DefinirNodos(g, k + 1,
                      Append(salida,
                             [id |-> IdDe(g, e), elem |-> e,
                              esProducto |-> ~EsCaja(e),
                              precio |-> precio.valor,
                              cantidad |-> IF EsCaja(e)
                                           THEN Len(HijosDe(e, virtual))
                                           ELSE 0]),
                      virtual)

RECURSIVE generarConexionesMermaid(_, _, _, _), ConectarContenido(_, _, _, _, _, _)

\* Caja.generarConexionesMermaid with pila stack frames left
generarConexionesMermaid(g, c, pila, virtual) ==
    IF pila = 0 THEN RangeError
    ELSE ConectarContenido(g, HijosDe(c, virtual), IdDe(g, c), Valor(<<>>),
                           pila - 1, virtual)

\* the for-of loop of Caja.generarConexionesMermaid
ConectarContenido(g, s, idNodoPadre, conexiones, pila, virtual) ==
    IF conexiones = RangeError THEN RangeError
    ELSE IF s = <<>> THEN conexiones
    ELSE LET linea == Valor(<<[padre |-> idNodoPadre, hijo |-> IdDe(g, Head(s))]>>)
         IN  ConectarContenido(g, Tail(s), idNodoPadre,
                 IF EsCaja(Head(s))
                 THEN Unir(Unir(conexiones, linea),
                           generarConexionesMermaid(g, Head(s), pila, virtual))
                 ELSE Unir(conexiones, linea),
                 pila, virtual)

\* the frames the model allows below a call on e: the virtual box is one
\* frame above the elements of the order
PilaPara(e) == IF e = cajaConsolidada THEN MaxPila + 1 ELSE MaxPila

\* what generarDiagrama does with a generator whose registration is g0
DiagramaCon(e, g0, virtual) ==
    LET g1 == registrarElementos(e, g0, PilaPara(e), virtual) IN
    IF g1 = RangeError
    THEN \* the recursion ran through a cycle: every element that can be
         \* reached was registered on the way, in the order of first visit
         LET alcanzados == IF e = cajaConsolidada
                           THEN ProcesarHijos(virtual, <<cajaConsolidada>>)
                           ELSE procesarElemento(e, <<>>)
         IN  [generador |->
                 [contadorNodos |-> g0.contadorNodos + Len(alcanzados),
                  mapaElementos |->
                     [i \in 1..Len(alcanzados) |->
                        [elem |-> alcanzados[i], id |-> g0.contadorNodos + i - 1]]],
              diagrama |-> RangeError]
    ELSE LET definiciones == DefinirNodos(g1, 1, <<>>, virtual)
             conexiones == IF EsCaja(e)
                           THEN generarConexionesMermaid(g1, e, PilaPara(e), virtual)
                           ELSE Valor(<<>>)
         IN  [generador |-> g1,
              diagrama |-> IF definiciones = RangeError \/ conexiones = RangeError
                           THEN RangeError
                           ELSE Valor([nodos |-> definiciones.valor,
                                       conexiones |-> conexiones.valor])]

\* variant of generarDiagrama that clears the Map and keeps the counter
generarDiagramaSinReiniciar(e, g, virtual) ==
    DiagramaCon(e, [contadorNodos |-> g.contadorNodos, mapaElementos |-> <<>>], virtual)

\* GeneradorMermaid.generarDiagrama called on a generator in state g:
\* contadorNodos = 0 and mapaElementos.clear() come first
generarDiagramaMermaid(e, g, virtual) ==
    DiagramaCon(e, [contadorNodos |-> 0, mapaElementos |-> <<>>], virtual)

\* String.prototype.toLowerCase on one character
toLowerCase(ch) ==
    CASE ch = "C" -> "c"
      [] ch = "E" -> "e"
      [] ch = "M" -> "m"
      [] ch = "P" -> "p"
      [] OTHER -> ch

RECURSIVE replaceEspacios(_, _)

\* String.prototype.replace(/\s+/g, '-'): every run of blanks becomes one '-'
replaceEspacios(s, enBlanco) ==
    IF s = <<>> THEN <<>>
    ELSE IF Head(s) = " "
         THEN (IF enBlanco THEN <<>> ELSE <<"-">>) \o replaceEspacios(Tail(s), TRUE)
         ELSE <<Head(s)>> \o replaceEspacios(Tail(s), FALSE)

\* elemento.obtenerNombre().replace(/\s+/g, '-').toLowerCase()
NombreDeArchivo(e) ==
    LET s == replaceEspacios(obtenerNombre(e), FALSE) IN
    [i \in 1..Len(s) |-> toLowerCase(s[i])]

\* the file `elemento-${i}-${nombre}` with its extension
ArchivoElemento(i, nombre, extension) ==
    [prefijo |-> "elemento", numero |-> i, nombre |-> nombre, extension |-> extension]

\* the file `pedido-completo-${numeroPedido}` with its extension
ArchivoPedido(extension) ==
    [prefijo |-> "pedido-completo", numero |-> 0, nombre |-> <<>>,
     extension |-> extension]

RECURSIVE AgregarTodos(_, _, _)

\* the loop of generarDiagramaConsolidado: cajaConsolidada.agregar(elemento)
\* for every element, on a box of capacidadMaxima 20
AgregarTodos(s, virtual, capacidadMaxima) ==
    IF s = <<>> THEN virtual
    ELSE AgregarTodos(Tail(s),
                      IF Len(virtual) >= capacidadMaxima THEN virtual
                      ELSE Append(virtual, Head(s)),
                      capacidadMaxima)

\* GestorPedidosConDiagramas.generarDiagramaConsolidado: the contenido of the
\* virtual box, its price, its diagram and the two files
generarDiagramaConsolidado(g) ==
    LET virtual == AgregarTodos(elementos, <<>>, 20)
        d == generarDiagramaMermaid(cajaConsolidada, g, virtual)
    IN  IF d.diagrama = RangeError THEN RangeError
        ELSE Valor([contenido |-> virtual,
                    precio |-> PrecioDe(cajaConsolidada, virtual).valor,
                    diagrama |-> d.diagrama.valor,
                    archivos |-> <<ArchivoPedido("mmd"), ArchivoPedido("html")>>])

RECURSIVE DiagramasDeElementos(_, _, _)

\* the for loop of generarDiagramasPedido from index i on: the files written
\* and the generator after the loop, or the exception that ended it
DiagramasDeElementos(i, g, archivos) ==
    IF i > Len(elementos) THEN Valor([generador |-> g, archivos |-> archivos])
    ELSE LET d == generarDiagramaMermaid(elementos[i], g, <<>>)
             nombre == NombreDeArchivo(elementos[i])
         IN  IF d.diagrama = RangeError THEN RangeError
             ELSE DiagramasDeElementos(i + 1, d.generador,
                      archivos \o <<ArchivoElemento(i, nombre, "mmd"),
                                    ArchivoElemento(i, nombre, "html")>>)

\* GestorPedidosConDiagramas.generarDiagramasPedido: the files it writes and,
\* when it builds one, the consolidated box
generarDiagramasPedido ==
    LET porElemento == DiagramasDeElementos(1, GeneradorNuevo, <<>>) IN
    IF porElemento = RangeError THEN RangeError
    ELSE IF Len(elementos) > 1
         THEN LET c == generarDiagramaConsolidado(porElemento.valor.generador) IN
              IF c = RangeError THEN RangeError
              ELSE Valor([archivos |-> porElemento.valor.archivos \o c.valor.archivos,
                          consolidada |-> <<c.valor>>])
         ELSE Valor([archivos |-> porElemento.valor.archivos, consolidada |-> <<>>])

\* a call of generarDiagrama(e) on a GeneradorMermaid that was last used for
\* element previo ("-": never used)
GenerarDiagramaMermaid(e, previo) ==
    /\ variante = "ts"
    /\ LET g == IF previo = "-" THEN GeneradorNuevo
                ELSE generarDiagramaMermaid(previo, GeneradorNuevo, <<>>).generador
       IN  ultimo' = Llamada("generarDiagrama", "-", e,
                             generarDiagramaMermaid(e, g, <<>>).diagrama, "-")
    /\ UNCHANGED <<contenido, elementos, productos, cajas, variante, otros>>

\* a call of GestorPedidosConDiagramas.generarDiagramasPedido()
GenerarDiagramasPedido ==
    /\ variante = "ts"
    /\ ultimo' = Llamada("generarDiagramasPedido", "-", "-", generarDiagramasPedido, "-")
    /\ UNCHANGED <<contenido, elementos, productos, cajas, variante, otros>>

\* the objects of the diagram demonstration, with their names letter by letter
InitDiagramas ==
    /\ contenido = [c \in Cajas |-> <<>>]
    /\ elementos = <<>>
    /\ productos = [p \in Productos |->
                      IF p = "p1"
                      THEN Producto(<<"M", "o", "u", "s", "e">>, 2599, "Perifericos")
                      ELSE Producto(<<"L", "i", "b", "r", "o", " ", " ", "T", "S">>,
                                    4500, "Libros")]
    /\ cajas = [c \in Cajas |->
                  IF c = "c1"
                  THEN Caja(<<"E", "n", "v", "í", "o", " ", "P", "r", "e", "m", "i", "u", "m">>,
                            1000, "Reforzada", 2)
                  ELSE Caja(<<"C", "a", "j", "a", " ", "P", "e", "r", "i", "f", "é", "r",
                              "i", "c", "o", "s">>, 500, "Acolchada", 1)]
    /\ variante = "ts"
    /\ ultimo = Llamada("new", "-", "-", undefined, "-")
    /\ OtrosEnReposo

NextDiagramas ==
    \/ \E c \in Cajas, e \in Elementos : Agregar(c, e)
    \/ \E c \in Cajas, e \in Elementos : Remover(c, e)
    \/ \E e \in Elementos : AgregarElemento(e)
    \/ \E e \in Elementos, previo \in Elementos \cup {"-"} : GenerarDiagramaMermaid(e, previo)
    \/ GenerarDiagramasPedido

SpecDiagramas == InitDiagramas /\ [][NextDiagramas]_vars

RECURSIVE SinRepetir(_, _)

\* the nodes of a walk, each at its first visit
SinRepetir(camino, salida) ==
    IF camino = <<>> THEN salida
    ELSE SinRepetir(Tail(camino),
                    IF \E i \in 1..Len(salida) : salida[i] = Head(camino)[1]
                    THEN salida
                    ELSE Append(salida, Head(camino)[1]))

\* the diagram d of element e has one definition per distinct node below and
\* including e, numbered 0, 1, ... in the order of first visit of the
\* pre-order walk, and one connection per parent-child pair, each between
\* defined ids
DiagramaBienFormado(d, e) ==
    LET camino == RecorrerTodo(<<<<e, 0>>>>, <<>>)
        orden == SinRepetir(camino, <<>>)
        ids == {d.nodos[i].id : i \in 1..Len(d.nodos)}
        idDe(x) == (d.nodos[CHOOSE i \in 1..Len(d.nodos) : d.nodos[i].elem = x]).id
    IN  /\ Len(d.nodos) = Len(orden)
        /\ \A i \in 1..Len(d.nodos) :
             /\ d.nodos[i].elem = orden[i]
             /\ d.nodos[i].id = i - 1
        /\ Cardinality(ids) = Len(d.nodos)
        /\ d.nodos[1].elem = e /\ d.nodos[1].id = 0
        /\ \A k \in 1..Len(d.conexiones) :
             d.conexiones[k].padre \in ids /\ d.conexiones[k].hijo \in ids
        /\ Len(d.conexiones) = Len(camino) - 1
        /\ {<<d.conexiones[k].padre, d.conexiones[k].hijo>> : k \in 1..Len(d.conexiones)}
             = {<<idDe(c), idDe(contenido[c][k])>> :
                  <<c, k>> \in {<<c, k>> \in (DOMAIN cajas) \X (1..Len(camino)) :
                                  /\ \E i \in 1..Len(orden) : orden[i] = c
                                  /\ k <= Len(contenido[c])}}
        /\ Len(orden) = Len(camino) =>
             \A j, k \in 1..Len(d.conexiones) :
                 d.conexiones[j] = d.conexiones[k] => j = k

\* C23: for every element with a finite structure, generarDiagrama of either
\* generator gives every distinct node one definition, ids nodo0, nodo1, ...
\* in depth-first pre-order from the root, connections only between defined
\* ids and one per parent-child pair; and a GeneradorMermaid that was used
\* before gives the same diagram as a new one.
C23_IdsDeNodos ==
    \A e \in Elementos :
        Aciclico(e) =>
            LET js == generarDiagrama(e)
                ts == generarDiagramaMermaid(e, GeneradorNuevo, <<>>)
            IN  /\ js # RangeError
                /\ ts.diagrama # RangeError
                /\ DiagramaBienFormado(js.valor, e)
                /\ DiagramaBienFormado(ts.diagrama.valor, e)
                /\ \A previo \in Elementos :
                     generarDiagramaMermaid(
                         e, generarDiagramaMermaid(previo, GeneradorNuevo, <<>>).generador,
                         <<>>).diagrama = ts.diagrama
                /\ (ultimo.op = "generarDiagrama" /\ ultimo.elem = e)
                     => ultimo.retorno = ts.diagrama

\* C23 witness: generarDiagrama returned the diagram of a box that holds a
\* product and a box with a product: four nodes and three connections.
C23_Witness ==
    /\ ultimo.op = "generarDiagrama"
    /\ ultimo.elem \in Cajas
    /\ Aciclico(ultimo.elem)
    /\ ultimo.retorno # RangeError
    /\ Len(ultimo.retorno.valor.nodos) = 4
    /\ Len(ultimo.retorno.valor.conexiones) = 3
    /\ \E d \in CajasHijas(ultimo.elem) : contenido[d] # <<>>

\* the files the demonstration prints under 'ARCHIVOS GENERADOS'
ArchivosListados ==
    LET nombre == <<"e", "n", "v", "i", "o", "-", "p", "r", "e", "m", "i", "u", "m">> IN
    { ArchivoElemento(1, nombre, "mmd"), ArchivoPedido("mmd"),
      ArchivoElemento(1, nombre, "html"), ArchivoPedido("html") }

\* C26 (as claimed): after generarDiagramasPedido on the order of the
\* demonstration, whose only element is the box 'Envío Premium', every file
\* listed under 'ARCHIVOS GENERADOS' has been written.
C26_ArchivosEscritos ==
    (/\ ultimo.op = "generarDiagramasPedido"
     /\ elementos = <<"c1">>
     /\ ultimo.retorno # RangeError)
    => \A archivo \in ArchivosListados :
         \E i \in 1..Len(ultimo.retorno.valor.archivos) :
             ultimo.retorno.valor.archivos[i] = archivo

\* longest order that is explored for the consolidated diagram
MaxPedido == 21

\* agregarElemento(e) on orders of up to MaxPedido elements; past the first
\* MaxElementos elements only the product p1 is added
AgregarAlPedido(e) ==
    /\ Len(elementos) < MaxPedido
    /\ Len(elementos) >= MaxElementos => e = "p1"
    /\ elementos' = Append(elementos, e)
    /\ ultimo' = Llamada("agregarElemento", "-", e, undefined, "Agregado al pedido")
    /\ UNCHANGED <<contenido, productos, cajas, variante, otros>>

NextConsolidado ==
    \/ \E c \in Cajas, p \in Productos : Agregar(c, p)
    \/ \E e \in Elementos : AgregarAlPedido(e)
    \/ GenerarDiagramasPedido

SpecConsolidado == InitDiagramas /\ [][NextConsolidado]_vars

\* C28 (as claimed): whenever generarDiagramasPedido builds the consolidated
\* diagram, the virtual box holds every element of the order, in order, and
\* its price is calcularPrecioTotal(), whatever the size of the order.
C28_ConsolidadoCompleto ==
    (/\ ultimo.op = "generarDiagramasPedido"
     /\ ultimo.retorno # RangeError
     /\ Len(elementos) > 1)
    => /\ Len(ultimo.retorno.valor.consolidada) = 1
       /\ ultimo.retorno.valor.consolidada[1].contenido = elementos
       /\ Valor(ultimo.retorno.valor.consolidada[1].precio) = calcularPrecioTotal

(* ---------------------------------------------------------------------- *)
(* Arrays handed out by Caja                                               *)
(* ---------------------------------------------------------------------- *)

\* an array value together with the storage behind it: "nuevo" for an array
\* created by the call, or the box whose contenido array it is
Arreglo(valores, referencia) == [valores |-> valores, referencia |-> referencia]

\* variant of obtenerContenido that returns this.contenido itself
obtenerContenidoSinCopia(c) == Arreglo(contenido[c], c)

\* Caja.obtenerContenido: [...this.contenido]
obtenerContenido(c) == Arreglo(contenido[c], "nuevo")

\* Caja.obtenerTodosLosProductos: the array const productos = [] it fills
TodosLosProductosDevueltos(c) ==
    LET r == obtenerTodosLosProductos(c) IN
    IF r = RangeError THEN RangeError ELSE Arreglo(r.valor, "nuevo")

\* what a caller can do to an array it holds
Mutaciones == {"push", "pop", "reverse"}

\* the array after push(e), pop() or reverse()
Mutar(valores, m, e) ==
    CASE m = "push" -> Append(valores, e)
      [] m = "pop" -> IF valores = <<>> THEN <<>> ELSE SubSeq(valores, 1, Len(valores) - 1)
      [] OTHER -> [i \in 1..Len(valores) |-> valores[Len(valores) + 1 - i]]

\* the caller mutates array a: a box changes only if a is its contenido array
MutarArreglo(op, c, a, m, e) ==
    /\ contenido' = IF a.referencia = "nuevo" THEN contenido
                    ELSE [contenido EXCEPT ![a.referencia] = Mutar(a.valores, m, e)]
    /\ ultimo' = Llamada(op, c, e, Valor(Mutar(a.valores, m, e)), m)
    /\ UNCHANGED <<elementos, productos, cajas, variante, otros>>

\* c.obtenerContenido() followed by a mutation of the returned array
MutarContenidoDevuelto(c, m, e) ==
    /\ variante = "ts"
    /\ MutarArreglo("obtenerContenido", c, obtenerContenido(c), m, e)

\* c.obtenerTodosLosProductos() followed by a mutation of the returned array
MutarProductosDevueltos(c, m, e) ==
    /\ variante # "ts"
    /\ TodosLosProductosDevueltos(c) # RangeError
    /\ MutarArreglo("obtenerTodosLosProductos", c, TodosLosProductosDevueltos(c), m, e)

NextCopias ==
    \/ \E c \in Cajas, e \in Elementos : Agregar(c, e)
    \/ \E c \in Cajas, e \in Elementos : Remover(c, e)
    \/ \E c \in Cajas, m \in Mutaciones, e \in Elementos : MutarContenidoDevuelto(c, m, e)
    \/ \E c \in Cajas, m \in Mutaciones, e \in Elementos : MutarProductosDevueltos(c, m, e)

SpecCopias == Init /\ [][NextCopias]_vars

\* C29: the contenido of a box changes only in a step of its own agregar or
\* remover; pushing to, popping from or reversing the array returned by
\* obtenerContenido() or obtenerTodosLosProductos() leaves every contenido,
\* obtenerCantidadElementos and calcularPrecio as they were.
C29_SoloLectura ==
    [][/\ \A c \in Cajas :
            contenido'[c] # contenido[c]
              => ultimo'.op \in {"agregar", "remover"} /\ ultimo'.caja = c
       /\ ultimo'.op \in {"obtenerContenido", "obtenerTodosLosProductos"}
            => \A c \in Cajas :
                 /\ contenido'[c] = contenido[c]
                 /\ obtenerCantidadElementos(c)' = obtenerCantidadElementos(c)
                 /\ calcularPrecio(c)' = calcularPrecio(c)]_vars

\* C29 witness: the array returned by obtenerContenido() of a box with two
\* children was reversed by the caller and the box still has them in order.
C29_Witness ==
    /\ ultimo.op = "obtenerContenido"
    /\ ultimo.consola = "reverse"
    /\ Len(contenido[ultimo.caja]) = 2
    /\ contenido[ultimo.caja][1] # contenido[ultimo.caja][2]
    /\ ultimo.retorno.valor = <<contenido[ultimo.caja][2], contenido[ultimo.caja][1]>>

(* ---------------------------------------------------------------------- *)
(* ServicioPedidos.procesarPedido and OrderProcessorTS.processOrder        *)
(* ---------------------------------------------------------------------- *)

fueraDeServicio ==
    <<sistemaPedidos, varsTransaccion, varsArchivos, varsProductos>>

\* the calls in flight
Llamadas == {"o1", "o2"}

\* the two order processors
Procesadores == {"ServicioPedidos", "OrderProcessorTS"}

\* the awaited calls of each processor, in the order of its code
Pasos(clase) ==
    IF clase = "ServicioPedidos"
    THEN <<"guardar", "procesarPago", "actualizar", "enviarNotificacion">>
    ELSE <<"save", "processPayment", "send">>

\* the step that charges the customer and the step that notifies them
PasoDePago(clase) == IF clase = "ServicioPedidos" THEN "procesarPago" ELSE "processPayment"
PasoDeAviso(clase) == IF clase = "ServicioPedidos" THEN "enviarNotificacion" ELSE "send"

\* the Error a dependency rejects with when its step fails
ErrorDe(paso) == [message |-> paso]

\* what a dependency's promise can settle to: the implementations resolve
\* with a result object or reject with an Error; only a payment gateway of
\* OrderProcessorTS can resolve with success: false
Resultados(clase, paso) ==
    {Resolved([success |-> TRUE]), Rejected(ErrorDe(paso))}
      \cup IF clase = "OrderProcessorTS" /\ paso = "processPayment"
           THEN {Resolved([success |-> FALSE])} ELSE {}

\* a call that has not been made
SinProcesar ==
    [clase |-> "-", iniciados |-> <<>>, asentados |-> <<>>,
     espera |-> [estado |-> "-"], promesa |-> [estado |-> "-"]]

InitServicio ==
    /\ servicio = [o \in Llamadas |-> SinProcesar]
    /\ PedidosEnReposo
    /\ TransaccionEnReposo
    /\ ArchivosEnReposo
    /\ ProductosEnReposo

\* the call up to its first await: the first step is started and the caller
\* gets a pending promise
Iniciar(o, clase) ==
    /\ servicio[o].clase = "-"
    /\ servicio' = [servicio EXCEPT ![o] =
          [clase |-> clase, iniciados |-> <<Pasos(clase)[1]>>, asentados |-> <<>>,
           espera |-> Pending, promesa |-> Pending]]
    /\ UNCHANGED fueraDeServicio

\* servicio.procesarPedido(pedido)
procesarPedido(o) == Iniciar(o, "ServicioPedidos")

\* processor.processOrder(order)
processOrder(o) == Iniciar(o, "OrderProcessorTS")

\* the dependency settles the promise the call is waiting for
AsentarDependencia(o, r) ==
    LET s == servicio[o] IN
    /\ s.promesa = Pending
    /\ s.espera = Pending
    /\ r \in Resultados(s.clase, s.iniciados[Len(s.iniciados)])
    /\ servicio' = [servicio EXCEPT ![o].espera = r,
                                    ![o].asentados = Append(@, r)]
    /\ UNCHANGED fueraDeServicio

\* what the catch block returns for error e
Fallo(clase, e) ==
    IF clase = "ServicioPedidos" THEN [success |-> FALSE, error |-> e.message]
    ELSE [success |-> FALSE, error |-> "-"]

\* what the call returns after its last step
Exito == [success |-> TRUE, error |-> "-"]

\* the exception the code after an await raises itself
ErrorTrasPaso(s) ==
    IF /\ s.clase = "OrderProcessorTS"
       /\ s.iniciados[Len(s.iniciados)] = "processPayment"
       /\ ~s.espera.valor.success
    THEN {[message |-> "Error en pago"]} ELSE {}

\* variant of the resumption that goes on to the next step after a rejection
SiguientePasoSinCatch(s) ==
    LET n == Len(s.iniciados) IN
    IF n < Len(Pasos(s.clase))
    THEN [s EXCEPT !.iniciados = Append(@, Pasos(s.clase)[n + 1]), !.espera = Pending]
    ELSE [s EXCEPT !.promesa = Resolved(Exito), !.espera = [estado |-> "-"]]

\* the continuation after an await: a rejection, or an exception of the code
\* that follows, goes to the catch block, which resolves the call; otherwise
\* the next step starts, or the call returns after the last one
SiguientePaso(s) ==
    IF s.espera.estado = "rejected"
    THEN [s EXCEPT !.promesa = Resolved(Fallo(s.clase, s.espera.valor)),
                   !.espera = [estado |-> "-"]]
    ELSE IF ErrorTrasPaso(s) # {}
    THEN [s EXCEPT !.promesa = Resolved(Fallo(s.clase, CHOOSE e \in ErrorTrasPaso(s) : TRUE)),
                   !.espera = [estado |-> "-"]]
    ELSE SiguientePasoSinCatch(s)

\* the microtask that resumes the call once the awaited promise has settled
Reanudar(o) ==
    /\ servicio[o].promesa = Pending
    /\ servicio[o].espera.estado \in {"resolved", "rejected"}
    /\ servicio' = [servicio EXCEPT ![o] = SiguientePaso(servicio[o])]
    /\ UNCHANGED fueraDeServicio

NextServicio ==
    \/ \E o \in Llamadas : procesarPedido(o)
    \/ \E o \in Llamadas : processOrder(o)
    \/ \E o \in Llamadas :
         \E r \in UNION {Resultados(cl, p) : cl \in Procesadores,
                         p \in {"guardar", "procesarPago", "actualizar",
                                "enviarNotificacion", "save", "processPayment", "send"}} :
           AsentarDependencia(o, r)
    \/ \E o \in Llamadas : Reanudar(o)

\* a settled promise always gets its continuation run by the event loop
SpecServicio ==
    InitServicio /\ [][NextServicio]_vars /\ \A o \in Llamadas : WF_vars(Reanudar(o))

\* the payment step of call s was started and resolved with a completed payment
PagoCompletado(s) ==
    \E i \in 1..Len(s.asentados) :
        /\ s.iniciados[i] = PasoDePago(s.clase)
        /\ s.asentados[i].estado = "resolved"
        /\ s.asentados[i].valor.success

\* C24: the steps started by a call are a prefix of guardar, procesarPago,
\* actualizar, enviarNotificacion (save, processPayment, send for
\* OrderProcessorTS); a step is started only when every earlier one has
\* resolved; once a step has rejected no further step is started and the
\* call's promise is never rejected: it stays pending until the continuation
\* runs and then resolves with success: false and the error's message; a
\* call resolves with success: true only after all its steps resolved; the
\* notification step is started only after the payment completed.
C24_PasosEnOrden ==
    /\ [](\A o \in Llamadas :
            LET s == servicio[o] IN
            s.clase # "-" =>
              /\ Len(s.iniciados) \in 1..Len(Pasos(s.clase))
              /\ s.iniciados = SubSeq(Pasos(s.clase), 1, Len(s.iniciados))
              /\ Len(s.asentados) \in {Len(s.iniciados) - 1, Len(s.iniciados)}
              /\ \A i \in 1..(Len(s.iniciados) - 1) : s.asentados[i].estado = "resolved"
              /\ s.promesa.estado \in {"pending", "resolved"}
              /\ (s.promesa.estado = "resolved" /\ s.promesa.valor.success)
                   => /\ s.iniciados = Pasos(s.clase)
                      /\ \A i \in 1..Len(s.asentados) : s.asentados[i].estado = "resolved"
              /\ (\E i \in 1..Len(s.asentados) : s.asentados[i].estado = "rejected")
                   => /\ Len(s.asentados) = Len(s.iniciados)
                      /\ s.asentados[Len(s.asentados)].estado = "rejected"
                      /\ (s.promesa.estado = "resolved" /\ s.clase = "ServicioPedidos")
                           => s.promesa.valor =
                                [success |-> FALSE,
                                 error |-> s.asentados[Len(s.asentados)].valor.message]
                      /\ s.promesa.estado = "resolved" => ~s.promesa.valor.success
              /\ (\E i \in 1..Len(s.iniciados) : s.iniciados[i] = PasoDeAviso(s.clase))
                   => PagoCompletado(s))
    /\ \A o \in Llamadas :
         (servicio[o].espera.estado = "rejected")
           ~> (servicio[o].promesa.estado = "resolved" /\ ~servicio[o].promesa.valor.success)

\* C24 witness: one call of procesarPedido whose actualizar step rejected has
\* resolved with success: false without sending the notification, and one
\* call of processOrder whose payment resolved with success: false has
\* resolved without sending either.
C24_Witness ==
    /\ servicio["o1"].clase = "ServicioPedidos"
    /\ servicio["o1"].iniciados = <<"guardar", "procesarPago", "actualizar">>
    /\ servicio["o1"].promesa = Resolved([success |-> FALSE, error |-> "actualizar"])
    /\ servicio["o2"].clase = "OrderProcessorTS"
    /\ servicio["o2"].iniciados = <<"save", "processPayment">>
    /\ Len(servicio["o2"].asentados) = 2
    /\ servicio["o2"].asentados[2] = Resolved([success |-> FALSE])
    /\ servicio["o2"].promesa.estado = "resolved"

(* ---------------------------------------------------------------------- *)
(* The Producto hierarchy of the Liskov example                            *)
(* ---------------------------------------------------------------------- *)

fueraDeProductos ==
    <<sistemaPedidos, varsTransaccion, varsArchivos, varsServicio>>

\* the concrete subclasses of Producto
Subtipos == {"ProductoFisico", "ProductoDigital", "ProductoPersonalizado"}

\* the prices the products are created with
PreciosBase == {0, 7, 250}

\* the percentages calcularPrecioConDescuento is called with
Porcentajes == (0 - 1)..101

\* new ProductoFisico(nombre, precio, stock), new ProductoDigital(...),
\* new ProductoPersonalizado(...): the fields the three constructors set
ProductoLiskov(precio, stock) ==
    [precio |-> precio, stock |-> stock, descargas |-> 0, pedidosEnCola |-> 0]

\* an exception thrown by a method
Excepcion(mensaje) == [tipo |-> "Error", message |-> mensaje]

\* Producto.obtenerDescuentoMaximo and its overrides
obtenerDescuentoMaximo(subtipo) ==
    CASE subtipo = "ProductoDigital" -> 90
      [] subtipo = "ProductoPersonalizado" -> 20
      [] OTHER -> 100

\* Math.min
MathMin(a, b) == IF a < b THEN a ELSE b

\* variant of calcularPrecioConDescuento that applies the percentage it is given
calcularPrecioConDescuentoSinMaximo(subtipo, porcentajeDescuento) ==
    IF porcentajeDescuento < 0 \/ porcentajeDescuento > 100
    THEN Excepcion("El descuento debe estar entre 0 y 100")
    ELSE LET precio == catalogo[subtipo].precio
             descuento == Dividir(precio * porcentajeDescuento, 100)
         IN  Valor(Dividir(precio * descuento.den - descuento.num, descuento.den))

\* Producto.calcularPrecioConDescuento, inherited by the three subclasses;
\* the quotients are exact fractions in lowest terms
calcularPrecioConDescuento(subtipo, porcentajeDescuento) ==
    IF porcentajeDescuento < 0 \/ porcentajeDescuento > 100
    THEN Excepcion("El descuento debe estar entre 0 y 100")
    ELSE LET precio == catalogo[subtipo].precio
             descuentoMaximo == obtenerDescuentoMaximo(subtipo)
             descuentoAplicable == MathMin(porcentajeDescuento, descuentoMaximo)
             descuento == Dividir(precio * descuentoAplicable, 100)
         IN  Valor(Dividir(precio * descuento.den - descuento.num, descuento.den))

\* the record of a method call on a product
LlamadaProducto(op, producto, argumento, retorno) ==
    [op |-> op, producto |-> producto, argumento |-> argumento, retorno |-> retorno]

\* producto.calcularPrecioConDescuento(porcentajeDescuento)
CalcularPrecioConDescuento(subtipo, porcentajeDescuento) ==
    /\ venta' = LlamadaProducto("calcularPrecioConDescuento", subtipo, porcentajeDescuento,
                                calcularPrecioConDescuento(subtipo, porcentajeDescuento))
    /\ UNCHANGED <<catalogo, inventory>>
    /\ UNCHANGED fueraDeProductos

InitDescuentos ==
    /\ catalogo \in [Subtipos -> {ProductoLiskov(precio, 0) : precio \in PreciosBase}]
    /\ inventory = <<>>
    /\ venta = <<>>
    /\ PedidosEnReposo
    /\ TransaccionEnReposo
    /\ ArchivosEnReposo
    /\ ServicioEnReposo

NextDescuentos ==
    \E subtipo \in Subtipos, porcentajeDescuento \in Porcentajes :
        CalcularPrecioConDescuento(subtipo, porcentajeDescuento)

SpecDescuentos == InitDescuentos /\ [][NextDescuentos]_vars

\* the maximum discount the documentation gives for each subtype
MaximoDocumentado(subtipo) ==
    CASE subtipo = "ProductoFisico" -> 100
      [] subtipo = "ProductoDigital" -> 90
      [] subtipo = "ProductoPersonalizado" -> 20

\* C25: for each of the three subtypes, calcularPrecioConDescuento with a
\* percentage in 0..100 returns a value r, without throwing, such that
\* r * 100 = precio * 100 - precio * min(percentage, maximum of the subtype),
\* the maximum being 100, 90 and 20; with a percentage outside 0..100 it
\* throws the Error "El descuento debe estar entre 0 y 100" whatever the
\* subtype; the call changes no product.
C25_DescuentoLiskov ==
    (venta # <<>> /\ venta.op = "calcularPrecioConDescuento") =>
        LET precio == catalogo[venta.producto].precio
            p == venta.argumento
            d == IF p < MaximoDocumentado(venta.producto)
                 THEN p ELSE MaximoDocumentado(venta.producto)
        IN  IF p >= 0 /\ p <= 100
            THEN /\ venta.retorno.tipo = "valor"
                 /\ venta.retorno.valor.den > 0
                 /\ venta.retorno.valor.num * 100
                      = (precio * 100 - precio * d) * venta.retorno.valor.den
            ELSE venta.retorno = [tipo |-> "Error",
                                  message |-> "El descuento debe estar entre 0 y 100"]

\* C25 witness: a ProductoPersonalizado of price 250 asked for a 50% discount
\* returned 200, the price with its maximum of 20%.
C25_Witness ==
    /\ venta # <<>>
    /\ venta.op = "calcularPrecioConDescuento"
    /\ venta.producto = "ProductoPersonalizado"
    /\ venta.argumento = 50
    /\ catalogo["ProductoPersonalizado"].precio = 250
    /\ venta.retorno = Valor([num |-> 200, den |-> 1])

(* ---------------------------------------------------------------------- *)
(* Stock: ProductoFisico.procesarVenta and InMemoryInventoryManagerTS      *)
(* ---------------------------------------------------------------------- *)

\* the largest stock a product is created or updated with
MaxStock == 3

\* the largest number of sales recorded by a digital or custom product
MaxVentas == 3

\* the quantities of a sale or a reservation
Cantidades == (0 - 1)..(MaxStock + 1)

\* the product ids of the inventory
ProductIds == {"PROD_1", "PROD_2"}

\* variant of ProductoFisico.procesarVenta without the stock test
procesarVentaSinRevisarStock(cantidad) ==
    IF cantidad <= 0
    THEN [retorno |-> Excepcion("La cantidad debe ser mayor a 0"),
          producto |-> catalogo["ProductoFisico"]]
    ELSE [retorno |-> Valor(TRUE),
          producto |-> [catalogo["ProductoFisico"] EXCEPT !.stock = @ - cantidad]]

\* ProductoFisico.procesarVenta: the outcome and the product after the call
procesarVentaFisico(cantidad) ==
    IF cantidad <= 0
    THEN [retorno |-> Excepcion("La cantidad debe ser mayor a 0"),
          producto |-> catalogo["ProductoFisico"]]
    ELSE IF cantidad > catalogo["ProductoFisico"].stock
    THEN [retorno |-> Valor(FALSE), producto |-> catalogo["ProductoFisico"]]
    ELSE [retorno |-> Valor(TRUE),
          producto |-> [catalogo["ProductoFisico"] EXCEPT !.stock = @ - cantidad]]

\* ProductoDigital.procesarVenta
procesarVentaDigital(cantidad) ==
    IF cantidad # 1
    THEN [retorno |-> Valor(FALSE), producto |-> catalogo["ProductoDigital"]]
    ELSE [retorno |-> Valor(TRUE),
          producto |-> [catalogo["ProductoDigital"] EXCEPT !.descargas = @ + 1]]

\* ProductoPersonalizado.procesarVenta
procesarVentaPersonalizado(cantidad) ==
    IF cantidad <= 0
    THEN [retorno |-> Valor(FALSE), producto |-> catalogo["ProductoPersonalizado"]]
    ELSE [retorno |-> Valor(TRUE),
          producto |-> [catalogo["ProductoPersonalizado"] EXCEPT !.pedidosEnCola = @ + cantidad]]

\* procesarVenta of each subclass
procesarVenta(subtipo, cantidad) ==
    CASE subtipo = "ProductoFisico" -> procesarVentaFisico(cantidad)
      [] subtipo = "ProductoDigital" -> procesarVentaDigital(cantidad)
      [] OTHER -> procesarVentaPersonalizado(cantidad)

\* producto.procesarVenta(cantidad)
ProcesarVenta(subtipo, cantidad) ==
    LET r == procesarVenta(subtipo, cantidad) IN
    /\ r.producto.descargas <= MaxVentas
    /\ r.producto.pedidosEnCola <= MaxVentas
    /\ catalogo' = [catalogo EXCEPT ![subtipo] = r.producto]
    /\ venta' = LlamadaProducto("procesarVenta", subtipo, cantidad, r.retorno)
    /\ UNCHANGED inventory
    /\ UNCHANGED fueraDeProductos

\* this.inventory.get(productId) || 0
StockActual(productId) ==
    IF productId \in DOMAIN inventory THEN inventory[productId] ELSE 0

\* Map.set
MapSet(m, k, v) == [x \in DOMAIN m \cup {k} |-> IF x = k THEN v ELSE m[x]]

\* InMemoryInventoryManagerTS.updateStock
updateStock(productId, quantity) ==
    /\ inventory' = MapSet(inventory, productId, quantity)
    /\ venta' = LlamadaProducto("updateStock", productId, quantity, undefined)
    /\ UNCHANGED catalogo
    /\ UNCHANGED fueraDeProductos

\* InMemoryInventoryManagerTS.reserveStock
reserveStock(productId, quantity) ==
    LET currentStock == StockActual(productId) IN
    /\ currentStock - quantity <= MaxStock + 1
    /\ inventory' = IF currentStock >= quantity
                    THEN MapSet(inventory, productId, currentStock - quantity)
                    ELSE inventory
    /\ venta' = LlamadaProducto("reserveStock", productId, quantity,
                                Valor(currentStock >= quantity))
    /\ UNCHANGED catalogo
    /\ UNCHANGED fueraDeProductos

\* the products as created, the ProductoFisico with a stock of 0 or more,
\* and an inventory manager with an empty Map, which updateStock can set to
\* any quantity
InitStock ==
    /\ \E stock \in 0..MaxStock :
         catalogo = [subtipo \in Subtipos |->
                       ProductoLiskov(250, IF subtipo = "ProductoFisico" THEN stock ELSE 0)]
    /\ inventory = <<>>
    /\ venta = <<>>
    /\ PedidosEnReposo
    /\ TransaccionEnReposo
    /\ ArchivosEnReposo
    /\ ServicioEnReposo

NextStock ==
    \/ \E subtipo \in Subtipos, cantidad \in Cantidades : ProcesarVenta(subtipo, cantidad)
    \/ \E productId \in ProductIds, quantity \in Cantidades : updateStock(productId, quantity)
    \/ \E productId \in ProductIds, quantity \in Cantidades : reserveStock(productId, quantity)

SpecStock == InitStock /\ [][NextStock]_vars

\* C30: the stock of the ProductoFisico is never negative; a procesarVenta
\* step on it with cantidad <= 0 throws and keeps the stock, with
\* cantidad > stock returns false and keeps the stock, and with
\* 0 < cantidad <= stock returns true and lowers the stock by cantidad; a
\* reserveStock step with a positive quantity returns true only when the
\* product's stock is at least the quantity, and then lowers that stock by
\* the quantity to a value of 0 or more and keeps the other stocks;
\* otherwise it returns false and changes no stock.
C30_StockNoNegativo ==
    /\ [](catalogo["ProductoFisico"].stock >= 0)
    /\ [][(venta'.op = "procesarVenta" /\ venta'.producto = "ProductoFisico") =>
            LET stock == catalogo["ProductoFisico"].stock
                cantidad == venta'.argumento
            IN  /\ cantidad <= 0 =>
                     /\ venta'.retorno.tipo = "Error"
                     /\ catalogo' = catalogo
                /\ cantidad > stock =>
                     /\ venta'.retorno = Valor(FALSE)
                     /\ catalogo' = catalogo
                /\ (0 < cantidad /\ cantidad <= stock) =>
                     /\ venta'.retorno = Valor(TRUE)
                     /\ catalogo'["ProductoFisico"].stock = stock - cantidad
                     /\ catalogo'["ProductoDigital"] = catalogo["ProductoDigital"]
                     /\ catalogo'["ProductoPersonalizado"] = catalogo["ProductoPersonalizado"]]_vars
    /\ [][(venta'.op = "reserveStock" /\ venta'.argumento > 0) =>
            LET productId == venta'.producto
                quantity == venta'.argumento
            IN  IF venta'.retorno = Valor(TRUE)
                THEN /\ StockActual(productId) >= quantity
                     /\ inventory'[productId] = StockActual(productId) - quantity
                     /\ inventory'[productId] >= 0
                     /\ \A x \in DOMAIN inventory \ {productId} : inventory'[x] = inventory[x]
                ELSE /\ StockActual(productId) < quantity
                     /\ inventory' = inventory]_vars

\* C30 witness: after a reservation that left PROD_1 at 0, a sale of 2 units
\* of the ProductoFisico has returned true and left its stock at 0.
C30_Witness ==
    /\ venta # <<>>
    /\ venta.op = "procesarVenta"
    /\ venta.producto = "ProductoFisico"
    /\ venta.argumento = 2
    /\ venta.retorno = Valor(TRUE)
    /\ catalogo["ProductoFisico"].stock = 0
    /\ "PROD_1" \in DOMAIN inventory
    /\ inventory["PROD_1"] = 0

TypeOK ==
    /\ contenido \in [Cajas -> Seq(Elementos)]
    /\ elementos \in Seq(Elementos)
    /\ variante \in Variantes

====
